---- MODULE Spec2Model ----
(***************************************************************************)
(* SQL Parrot (src-tauri): the snapshot commands of commands/snapshots.rs  *)
(* over the metadata store of db/metadata.rs and the SQL Server session of *)
(* db/sqlserver.rs.  A command is an async handler: it is modelled as a    *)
(* request that advances one store call or one remote call at a time.      *)
(***************************************************************************)
EXTENDS Integers, Sequences, FiniteSets, TLC

\* ---------------------------------------------------------------- bounds
\* Checkpoint ids handed out (one per created checkpoint).
MaxIds == 3
\* History entries after which no further command is started.
MaxHistory == 4
\* Remote calls that fail although the server could have executed them.
MaxFaults == 1
\* Profile ids ever handed out.
MaxProfiles == 3
\* Readings of the wall clock.
MaxClock == 2

\* ------------------------------------------------------------ the world
Procs == {1, 2}

DbA == <<"A">>
DbB == <<"B">>
\* The user databases of the server.
ServerDBs == {DbA, DbB}
\* Names an outside actor (another tool instance, an operator) gives to
\* snapshot objects it creates on the server.
ExtNames == {<<"x">>}

\* Option<String>::None of a group's profile_id (profile ids start at 1).
NoProfileId == 0

\* The profile the store holds at the start.
Profile1 == [id |-> 1, name |-> "n1", host |-> "h1", is_active |-> TRUE]

Group1 == [id |-> "g1", name |-> <<"q", " ", "a">>, databases |-> <<DbA, DbB>>,
           profile_id |-> 1]
Group2 == [id |-> "g2", name |-> <<"e">>, databases |-> <<>>,
           profile_id |-> NoProfileId]

\* Version strings as their dot-separated components.
Version0 == <<0, 0, 0>>
RunningVersion == <<1, 3, 0>>

\* The settings row the bundled database ships with.
BundledSettings == [auto_create_checkpoint |-> TRUE, max_history_entries |-> 100]

\* No config.json in the application's directory.
NoConfig == [exists |-> FALSE, active_profile |-> "", profiles |-> {},
             max_history_entries |-> 0]

VARIABLES profiles, nextProfile, groups, snapshots, history, settings,
          server, req, nextId, faults, maxSeqEver,
          clock, metadata, config, running, historyWritable, serial,
          foreign_keys

\* settings and metadata are the rows of the tables of those names; config
\* is the legacy config.json, running the version of the running build,
\* clock the wall clock, historyWritable whether an INSERT into history
\* succeeds, serial whether the front end issues one command at a time,
\* foreign_keys whether the SQLite library the build links enforces foreign
\* keys by default (open() issues no PRAGMA foreign_keys): with one command
\* at a time no statement of the program can break the key, so the serial
\* initial states carry FALSE.
openState == <<clock, metadata, config, running, historyWritable, serial,
               foreign_keys>>

vars == <<profiles, nextProfile, groups, snapshots, history, settings,
          server, req, nextId, faults, maxSeqEver, openState>>

\* --------------------------------------------------------- pure helpers
Range(s) == {s[i] : i \in 1..Len(s)}

Digit(n) ==
    CASE n = 0 -> "0" [] n = 1 -> "1" [] n = 2 -> "2" [] n = 3 -> "3"
      [] n = 4 -> "4" [] n = 5 -> "5" [] n = 6 -> "6" [] n = 7 -> "7"
      [] n = 8 -> "8" [] n = 9 -> "9"

RECURSIVE Decimal(_)
\* u32 Display: the decimal digits of n.
Decimal(n) == IF n < 10 THEN <<Digit(n)>>
              ELSE Decimal(n \div 10) \o <<Digit(n % 10)>>

\* str::replace(' ', "_")
ReplaceSpaces(s) == [i \in 1..Len(s) |-> IF s[i] = " " THEN "_" ELSE s[i]]

SnapshotInfix == <<"_", "s", "n", "a", "p", "s", "h", "o", "t", "_">>
AutoSuffix == <<"_", "a", "u", "t", "o">>

\* format!("{}_snapshot_{}_{}", database, group.name.replace(' ', "_"), sequence)
snapshot_name(database, group_name, sequence) ==
    database \o SnapshotInfix \o ReplaceSpaces(group_name) \o <<"_">>
        \o Decimal(sequence)

\* format!("{}_snapshot_{}_{}_auto", ...)
auto_snapshot_name(database, group_name, sequence) ==
    snapshot_name(database, group_name, sequence) \o AutoSuffix

\* ------------------------------------------------------- metadata store
RECURSIVE BySequenceDesc(_)
BySequenceDesc(S) ==
    IF S = {} THEN <<>>
    ELSE LET m == CHOOSE s \in S : \A t \in S :
                      \/ t.sequence < s.sequence
                      \/ (t.sequence = s.sequence /\ t.id <= s.id)
         IN <<m>> \o BySequenceDesc(S \ {m})

\* SELECT ... FROM snapshots WHERE group_id = ? ORDER BY sequence DESC
get_snapshots(group_id) ==
    BySequenceDesc({s \in snapshots : s.group_id = group_id})

SetMax(S) == CHOOSE m \in S : \A x \in S : x <= m

get_next_sequence_gapfill(group_id) ==
    LET used == {s.sequence : s \in {t \in snapshots : t.group_id = group_id}}
    IN CHOOSE n \in 1..(Cardinality(used) + 1) :
           n \notin used /\ \A m \in 1..(n - 1) : m \in used

\* SELECT MAX(sequence) FROM snapshots WHERE group_id = ?;  max.unwrap_or(0) + 1
get_next_sequence(group_id) ==
    LET seqs == {s.sequence : s \in {t \in snapshots : t.group_id = group_id}}
    IN (IF seqs = {} THEN 0 ELSE SetMax(seqs)) + 1

\* FOREIGN KEY (group_id) REFERENCES groups(id): where the key is enforced
\* the INSERT of a checkpoint row whose group row is gone is rejected.
KeyRejects(snapshot) ==
    foreign_keys /\ \A g \in groups : g.id # snapshot.group_id

\* DELETE FROM snapshots WHERE id = ?
delete_snapshot_row(rows, snapshot_id) == {s \in rows : s.id # snapshot_id}

\* The lookup loop of the snapshot commands: the groups of get_groups(), and
\* in each the snapshot with the given id.
FindSnapshot(snapshot_id) ==
    {s \in snapshots : s.id = snapshot_id
                       /\ \E g \in groups : g.id = s.group_id}

GroupOf(s) == CHOOSE g \in groups : g.id = s.group_id

HistoryEntry(type, snapshot_id, results) ==
    [operation_type |-> type, snapshotId |-> snapshot_id, results |-> results,
     dropped |-> 0, timestamp |-> clock]

\* store.add_history(&entry), whose error every caller discards.
add_history(entry) ==
    IF historyWritable THEN Append(history, entry) ELSE history

\* SELECT data FROM settings WHERE id = 1
get_settings == (CHOOSE row \in settings : row.id = 1).data

\* -------------------------------------------------------- remote server
SnapshotObject(name, source) == [name |-> name, source |-> source]

ServerNames == {o.name : o \in server}

\* CREATE DATABASE [name] ON ... AS SNAPSHOT OF [source]: the source must
\* have data files and the name must be free.
CanCreate(source, name) ==
    /\ source \in ServerDBs
    /\ name \notin ServerNames
    /\ name \notin ServerDBs

\* RESTORE DATABASE [database] FROM DATABASE_SNAPSHOT = 'name': the snapshot
\* must be one of the database and the only one of it.
CanRestore(database, name) ==
    /\ SnapshotObject(name, database) \in server
    /\ \A o \in server : o.source = database => o.name = name

\* DROP DATABASE IF EXISTS [name]
Dropped(name) == {o \in server : o.name # name}

\* A remote call answers ok only if the server can execute it; it may fail
\* although it could (network, timeout) while the fault budget lasts.
Outcome(ok, possible) ==
    /\ ok => possible
    /\ (~ok /\ possible) => faults < MaxFaults
    /\ faults' = IF ~ok /\ possible THEN faults + 1 ELSE faults

Call(kind, database, name, ok) ==
    [call |-> kind, database |-> database, name |-> name, ok |-> ok]

\* ------------------------------------------------------------- requests
NoSnapshot == [id |-> 0, group_id |-> "", display_name |-> "", sequence |-> 0,
               database_snapshots |-> <<>>, is_automatic |-> FALSE]
NoGroup == [id |-> "", name |-> <<>>, databases |-> <<>>,
            profile_id |-> NoProfileId]
NoResult == [success |-> FALSE, databases_restored |-> 0,
             databases_failed |-> 0, results |-> <<>>]
NoResponse == [status |-> "none", message |-> "", external |-> {},
               result |-> NoResult, snapshot |-> NoSnapshot,
               dropped_databases |-> 0, has_external_snapshots |-> FALSE,
               drop_commands |-> {}, verified |-> FALSE,
               orphaned_snapshots |-> {}, stale_metadata |-> {}, deleted |-> 0]

IdleReq == [op |-> "idle", pc |-> "idle", id |-> 0,
            snapshot |-> NoSnapshot, group |-> NoGroup,
            input |-> NoGroup, group_snapshots |-> <<>>, k |-> 1, j |-> 1,
            results |-> <<>>, create_results |-> <<>>, sequence |-> 0,
            database_snapshots |-> <<>>,
            dropped_count |-> 0, auto |-> FALSE, calls |-> <<>>,
            response |-> NoResponse,
            pre_snapshots |-> {}, pre_history |-> <<>>, pre_server |-> {},
            pre_groups |-> {}, pre_profiles |-> {}, pre_settings |-> {},
            pre_metadata |-> {}, pre_config |-> NoConfig]

ErrorResponse(message) == [NoResponse EXCEPT !.status = "error", !.message = message]

Idle == \A p \in Procs : req[p].op = "idle"

\* A command is accepted while the run is within its bounds.
CanStart(p) ==
    /\ IF serial THEN Idle ELSE req[p].op = "idle"
    /\ Len(history) < MaxHistory

Begin(op, id) ==
    [IdleReq EXCEPT !.op = op, !.id = id, !.pre_snapshots = snapshots,
                    !.pre_history = history, !.pre_server = server,
                    !.pre_groups = groups, !.pre_profiles = profiles,
                    !.pre_settings = settings, !.pre_metadata = metadata,
                    !.pre_config = config]

\* An early return: ApiResponse::error(message); the handler's locals are gone.
Fail(r, message) ==
    [IdleReq EXCEPT !.op = r.op, !.pc = "done", !.calls = r.calls,
                    !.response = ErrorResponse(message),
                    !.input = r.input,
                    !.pre_snapshots = r.pre_snapshots,
                    !.pre_history = r.pre_history,
                    !.pre_server = r.pre_server,
                    !.pre_groups = r.pre_groups,
                    !.pre_profiles = r.pre_profiles,
                    !.pre_settings = r.pre_settings,
                    !.pre_metadata = r.pre_metadata,
                    !.pre_config = r.pre_config]

Init ==
    /\ profiles = {Profile1}
    /\ nextProfile = 2
    /\ groups = {Group1, Group2}
    /\ snapshots = {}
    /\ history = <<>>
    /\ settings = {[id |-> 1, data |-> BundledSettings]}
    /\ clock = 0
    /\ metadata = {[key |-> "last_version_seen", value |-> RunningVersion]}
    /\ config = NoConfig
    /\ running = RunningVersion
    /\ historyWritable = TRUE
    /\ serial = TRUE
    /\ foreign_keys = FALSE
    /\ server = {}
    /\ req = [p \in Procs |-> IdleReq]
    /\ nextId = 1
    /\ faults = 0
    /\ maxSeqEver = [g \in {"g1", "g2", "g3"} |-> 0]


\* Every command returns to its caller.
Return(p) ==
    /\ req[p].pc = "done"
    /\ req' = [req EXCEPT ![p] = IdleReq]
    /\ UNCHANGED openState
    /\ UNCHANGED <<profiles, nextProfile, groups, snapshots, history, settings, server, nextId,
                   faults, maxSeqEver>>

\* SqlServerConnection::connect(profile), as every snapshot command calls it.
FirstRemoteStep(op) ==
    CASE op = "create_snapshot" -> "create_db"
      [] op = "delete_snapshot" -> "delete_drop"
      [] op = "cleanup_snapshot" -> "cleanup_drop"
      [] op = "rollback_snapshot" -> "list"
      [] op = "update_group" -> "ug_removed"
      [] op = "delete_group" -> "dg_drop"
      [] op = "verify_snapshots" -> "verify_list"
      [] op = "check_external_snapshots" -> "check_list"

\* Variant of Connect in which a failed connection ends every command.
Connect_strict(p) ==
    /\ req[p].pc = "connect"
    /\ \E ok \in BOOLEAN :
         /\ Outcome(ok, TRUE)
         /\ LET r == [req[p] EXCEPT !.calls = Append(@, Call("connect", <<>>, <<>>, ok))]
            IN req' = [req EXCEPT ![p] =
                 IF ok /\ r.op = "update_group"
                 THEN [r EXCEPT !.pc = FirstRemoteStep(r.op),
                                !.group_snapshots = get_snapshots(r.group.id)]
                 ELSE IF ok THEN [r EXCEPT !.pc = FirstRemoteStep(r.op)]
                 ELSE Fail(r, "Failed to connect")]
    /\ UNCHANGED openState
    /\ UNCHANGED <<profiles, nextProfile, groups, snapshots, history, settings, server, nextId,
                   maxSeqEver>>

\* Variant of Connect in which a command that cannot reach the server
\* forgets the checkpoint it was called for before it reports the error.
Connect_forgetful(p) ==
    /\ req[p].pc = "connect"
    /\ \E ok \in BOOLEAN :
         /\ Outcome(ok, TRUE)
         /\ LET r == [req[p] EXCEPT !.calls = Append(@, Call("connect", <<>>, <<>>, ok))]
            IN /\ req' = [req EXCEPT ![p] =
                    IF ok /\ r.op = "update_group"
                    THEN [r EXCEPT !.pc = FirstRemoteStep(r.op),
                                   !.group_snapshots = get_snapshots(r.group.id)]
                    ELSE IF ok THEN [r EXCEPT !.pc = FirstRemoteStep(r.op)]
                    ELSE IF r.op = "delete_group" THEN [r EXCEPT !.pc = "dg_delete"]
                    ELSE Fail(r, "Failed to connect")]
               /\ snapshots' = IF ok THEN snapshots
                               ELSE delete_snapshot_row(snapshots, r.id)
    /\ UNCHANGED openState
    /\ UNCHANGED <<profiles, nextProfile, groups, history, settings, server, nextId,
                   maxSeqEver>>

Connect(p) ==
    /\ req[p].pc = "connect"
    /\ \E ok \in BOOLEAN :
         /\ Outcome(ok, TRUE)
         /\ LET r == [req[p] EXCEPT !.calls = Append(@, Call("connect", <<>>, <<>>, ok))]
            IN req' = [req EXCEPT ![p] =
                 IF ok /\ r.op = "update_group"
                 THEN [r EXCEPT !.pc = FirstRemoteStep(r.op),
                                !.group_snapshots = get_snapshots(r.group.id)]
                 ELSE IF ok THEN [r EXCEPT !.pc = FirstRemoteStep(r.op)]
                 ELSE IF r.op = "delete_group" THEN [r EXCEPT !.pc = "dg_delete"]
                 ELSE Fail(r, "Failed to connect")]
    /\ UNCHANGED openState
    /\ UNCHANGED <<profiles, nextProfile, groups, snapshots, history, settings, server, nextId,
                   maxSeqEver>>

\* update_settings: the auto-checkpoint preference.
update_settings(v, max_history_entries) ==
    /\ Idle
    /\ settings' = {IF row.id = 1
                     THEN [row EXCEPT
                             !.data.auto_create_checkpoint = v,
                             !.data.max_history_entries = max_history_entries]
                     ELSE row : row \in settings}
    /\ UNCHANGED openState
    /\ UNCHANGED <<profiles, nextProfile, groups, snapshots, history, server, req, nextId, faults,
                   maxSeqEver>>

\* A snapshot object created on the server by someone else.
ExternalCreate(name, source) ==
    /\ Idle
    /\ CanCreate(source, name)
    /\ server' = server \cup {SnapshotObject(name, source)}
    /\ UNCHANGED openState
    /\ UNCHANGED <<profiles, nextProfile, groups, snapshots, history, settings, req, nextId, faults,
                   maxSeqEver>>

\* ------------------------------------------------------ create_snapshot
create_snapshot_start(p, has_profile, group_id) ==
    /\ CanStart(p)
    /\ nextId <= MaxIds
    /\ LET r == Begin("create_snapshot", 0)
       IN req' = [req EXCEPT ![p] =
            IF ~has_profile THEN Fail(r, "No active connection profile")
            ELSE IF \A g \in groups : g.id # group_id
                 THEN Fail(r, "Group not found")
            ELSE [r EXCEPT !.group = CHOOSE g \in groups : g.id = group_id,
                           !.sequence = get_next_sequence(group_id),
                           !.pc = "connect"]]
    /\ UNCHANGED openState
    /\ UNCHANGED <<profiles, nextProfile, groups, snapshots, history, settings, server, nextId,
                   faults, maxSeqEver>>

\* Variant of CreateOne that records every database as created.
CreateOne_optimistic(r, name, ok) ==
    LET database == r.group.databases[r.k]
    IN [r EXCEPT
           !.database_snapshots = Append(@,
               [database |-> database, snapshot_name |-> name,
                success |-> TRUE, error |-> ""]),
           !.create_results = Append(@,
               [database |-> database, success |-> TRUE, error |-> ""]),
           !.calls = Append(@, Call("create", database, name, ok)),
           !.k = @ + 1]

\* One iteration of the per-database loop: conn.create_snapshot and the
\* DatabaseSnapshot / OperationResult pushed for its outcome.
CreateOne(r, name, ok) ==
    LET database == r.group.databases[r.k]
        error == IF ok THEN "" ELSE "create failed"
    IN [r EXCEPT
           !.database_snapshots = Append(@,
               [database |-> database, snapshot_name |-> name,
                success |-> ok, error |-> error]),
           !.create_results = Append(@,
               [database |-> database, success |-> ok, error |-> error]),
           !.calls = Append(@, Call("create", database, name, ok)),
           !.k = @ + 1]

create_snapshot_db(p) ==
    /\ req[p].pc = "create_db"
    /\ req[p].k <= Len(req[p].group.databases)
    /\ LET r == req[p]
           database == r.group.databases[r.k]
           name == snapshot_name(database, r.group.name, r.sequence)
       IN \E ok \in BOOLEAN :
            /\ Outcome(ok, CanCreate(database, name))
            /\ server' = IF ok THEN server \cup {SnapshotObject(name, database)}
                         ELSE server
            /\ req' = [req EXCEPT ![p] = CreateOne(r, name, ok)]
    /\ UNCHANGED openState
    /\ UNCHANGED <<profiles, nextProfile, groups, snapshots, history, settings, nextId, maxSeqEver>>

\* Variant of create_snapshot_save that propagates a failed history write.
create_snapshot_save_strict(p) ==
    /\ req[p].pc = "create_db"
    /\ req[p].k > Len(req[p].group.databases)
    /\ LET r == req[p]
           snapshot == [id |-> nextId, group_id |-> r.group.id,
                        display_name |-> "Snapshot " \o ToString(r.sequence),
                        sequence |-> r.sequence,
                        database_snapshots |-> r.database_snapshots,
                        is_automatic |-> FALSE]
       IN /\ snapshots' = snapshots \cup {snapshot}
          /\ history' = add_history(
                 HistoryEntry("create_snapshot", snapshot.id, r.create_results))
          /\ maxSeqEver' = [maxSeqEver EXCEPT ![r.group.id] =
                 IF r.sequence > @ THEN r.sequence ELSE @]
          /\ req' = [req EXCEPT ![p] =
                 IF historyWritable
                 THEN [r EXCEPT !.pc = "done",
                                !.response = [NoResponse EXCEPT !.status = "success",
                                                                !.snapshot = snapshot]]
                 ELSE Fail(r, "Failed to add history")]
    /\ nextId' = nextId + 1
    /\ UNCHANGED openState
    /\ UNCHANGED <<profiles, nextProfile, groups, settings, server, faults>>

create_snapshot_save(p) ==
    /\ req[p].pc = "create_db"
    /\ req[p].k > Len(req[p].group.databases)
    /\ LET r == req[p]
           snapshot == [id |-> nextId, group_id |-> r.group.id,
                        display_name |-> "Snapshot " \o ToString(r.sequence),
                        sequence |-> r.sequence,
                        database_snapshots |-> r.database_snapshots,
                        is_automatic |-> FALSE]
       IN IF KeyRejects(snapshot)
          THEN /\ req' = [req EXCEPT ![p] =
                      Fail(r, "Failed to save snapshot metadata")]
               /\ UNCHANGED <<snapshots, history, maxSeqEver>>
          ELSE /\ snapshots' = snapshots \cup {snapshot}
               /\ history' = add_history(
                      HistoryEntry("create_snapshot", snapshot.id, r.create_results))
               /\ maxSeqEver' = [maxSeqEver EXCEPT ![r.group.id] =
                      IF r.sequence > @ THEN r.sequence ELSE @]
               /\ req' = [req EXCEPT ![p] =
                      [r EXCEPT !.pc = "done",
                                !.response = [NoResponse EXCEPT
                                                !.status = "success",
                                                !.snapshot = snapshot]]]
    /\ nextId' = nextId + 1
    /\ UNCHANGED openState
    /\ UNCHANGED <<profiles, nextProfile, groups, settings, server, faults>>

\* ------------------------------------------------------ delete_snapshot
delete_snapshot_start(p, has_profile, id) ==
    /\ CanStart(p)
    /\ LET r == Begin("delete_snapshot", id)
       IN req' = [req EXCEPT ![p] =
            IF ~has_profile THEN Fail(r, "No active connection profile")
            ELSE IF FindSnapshot(id) = {} THEN Fail(r, "Snapshot not found")
            ELSE [r EXCEPT !.snapshot = CHOOSE s \in FindSnapshot(id) : TRUE,
                           !.pc = "connect"]]
    /\ UNCHANGED openState
    /\ UNCHANGED <<profiles, nextProfile, groups, snapshots, history, settings, server, nextId,
                   faults, maxSeqEver>>

\* conn.drop_snapshot(name) with its outcome recorded in the request.
DropStep(p, r, name) ==
    \E ok \in BOOLEAN :
        /\ Outcome(ok, TRUE)
        /\ server' = IF ok THEN Dropped(name) ELSE server
        /\ req' = [req EXCEPT ![p] =
             [r EXCEPT !.calls = Append(@, Call("drop", <<>>, name, ok)),
                       !.dropped_count = IF ok THEN @ + 1 ELSE @,
                       !.j = @ + 1]]

delete_snapshot_drop(p) ==
    /\ req[p].pc = "delete_drop"
    /\ req[p].j <= Len(req[p].snapshot.database_snapshots)
    /\ LET ds == req[p].snapshot.database_snapshots[req[p].j]
       IN IF ds.success
          THEN DropStep(p, req[p], ds.snapshot_name)
          ELSE /\ req' = [req EXCEPT ![p].j = @ + 1]
               /\ UNCHANGED <<server, faults>>
    /\ UNCHANGED openState
    /\ UNCHANGED <<profiles, nextProfile, groups, snapshots, history, settings, nextId, maxSeqEver>>

\* Variant of delete_snapshot_finish that keeps the row and reports an error
\* when a drop failed.
delete_snapshot_finish_strict(p) ==
    /\ req[p].pc = "delete_drop"
    /\ req[p].j > Len(req[p].snapshot.database_snapshots)
    /\ LET failed == \E i \in 1..Len(req[p].calls) :
                         req[p].calls[i].call = "drop" /\ ~req[p].calls[i].ok
       IN IF failed
          THEN /\ req' = [req EXCEPT ![p].pc = "done",
                             ![p].response = ErrorResponse("Failed to drop snapshot")]
               /\ UNCHANGED <<snapshots, history>>
          ELSE /\ snapshots' = delete_snapshot_row(snapshots, req[p].id)
               /\ history' = add_history(
                      HistoryEntry("delete_snapshot", req[p].id, <<>>))
               /\ req' = [req EXCEPT ![p].pc = "done",
                             ![p].response = [NoResponse EXCEPT !.status = "success"]]
    /\ UNCHANGED openState
    /\ UNCHANGED <<profiles, nextProfile, groups, settings, server, nextId, faults, maxSeqEver>>

delete_snapshot_finish(p) ==
    /\ req[p].pc = "delete_drop"
    /\ req[p].j > Len(req[p].snapshot.database_snapshots)
    /\ snapshots' = delete_snapshot_row(snapshots, req[p].id)
    /\ history' = add_history(HistoryEntry("delete_snapshot", req[p].id, <<>>))
    /\ req' = [req EXCEPT ![p].pc = "done",
                          ![p].response = [NoResponse EXCEPT !.status = "success"]]
    /\ UNCHANGED openState
    /\ UNCHANGED <<profiles, nextProfile, groups, settings, server, nextId, faults, maxSeqEver>>

\* ----------------------------------------------------- cleanup_snapshot
cleanup_snapshot_start(p, has_profile, id) ==
    /\ CanStart(p)
    /\ LET r == Begin("cleanup_snapshot", id)
       IN req' = [req EXCEPT ![p] =
            IF ~has_profile THEN Fail(r, "No active connection profile")
            ELSE IF FindSnapshot(id) = {} THEN Fail(r, "Snapshot not found")
            ELSE [r EXCEPT !.snapshot = CHOOSE s \in FindSnapshot(id) : TRUE,
                           !.pc = "connect"]]
    /\ UNCHANGED openState
    /\ UNCHANGED <<profiles, nextProfile, groups, snapshots, history, settings, server, nextId,
                   faults, maxSeqEver>>

\* Variant of cleanup_snapshot_drop that skips the entries marked failed.
cleanup_snapshot_drop_successful_only(p) ==
    /\ req[p].pc = "cleanup_drop"
    /\ req[p].j <= Len(req[p].snapshot.database_snapshots)
    /\ LET ds == req[p].snapshot.database_snapshots[req[p].j]
       IN IF ds.snapshot_name # <<>> /\ ds.success
          THEN DropStep(p, req[p], ds.snapshot_name)
          ELSE /\ req' = [req EXCEPT ![p].j = @ + 1]
               /\ UNCHANGED <<server, faults>>
    /\ UNCHANGED openState
    /\ UNCHANGED <<profiles, nextProfile, groups, snapshots, history, settings, nextId, maxSeqEver>>

cleanup_snapshot_drop(p) ==
    /\ req[p].pc = "cleanup_drop"
    /\ req[p].j <= Len(req[p].snapshot.database_snapshots)
    /\ LET ds == req[p].snapshot.database_snapshots[req[p].j]
       IN IF ds.snapshot_name # <<>>
          THEN DropStep(p, req[p], ds.snapshot_name)
          ELSE /\ req' = [req EXCEPT ![p].j = @ + 1]
               /\ UNCHANGED <<server, faults>>
    /\ UNCHANGED openState
    /\ UNCHANGED <<profiles, nextProfile, groups, snapshots, history, settings, nextId, maxSeqEver>>

cleanup_snapshot_finish(p) ==
    /\ req[p].pc = "cleanup_drop"
    /\ req[p].j > Len(req[p].snapshot.database_snapshots)
    /\ snapshots' = delete_snapshot_row(snapshots, req[p].id)
    /\ history' = add_history(
           [HistoryEntry("cleanup_snapshot", req[p].id, <<>>)
               EXCEPT !.dropped = req[p].dropped_count])
    /\ req' = [req EXCEPT ![p].pc = "done",
                          ![p].response = [NoResponse EXCEPT
                              !.status = "success",
                              !.dropped_databases = req[p].dropped_count]]
    /\ UNCHANGED openState
    /\ UNCHANGED <<profiles, nextProfile, groups, settings, server, nextId, faults, maxSeqEver>>

\* ---------------------------------------------------- rollback_snapshot
rollback_snapshot_start(p, has_profile, id) ==
    /\ CanStart(p)
    /\ get_settings.auto_create_checkpoint => nextId <= MaxIds
    /\ LET r == Begin("rollback_snapshot", id)
       IN req' = [req EXCEPT ![p] =
            IF ~has_profile THEN Fail(r, "No active connection profile")
            ELSE IF FindSnapshot(id) = {} THEN Fail(r, "Snapshot not found")
            ELSE LET s == CHOOSE x \in FindSnapshot(id) : TRUE
                 IN [r EXCEPT !.snapshot = s, !.group = GroupOf(s),
                              !.pc = "connect"]]
    /\ UNCHANGED openState
    /\ UNCHANGED <<profiles, nextProfile, groups, snapshots, history, settings, server, nextId,
                   faults, maxSeqEver>>

\* conn.get_snapshots_with_source(): every snapshot object of the server with
\* the database it was taken from.
get_snapshots_with_source == server

\* The names the metadata tracks for the group, failed entries included.
our_snapshot_names(group_snapshots) ==
    UNION {{ds.snapshot_name : ds \in Range(s.database_snapshots)}
           : s \in Range(group_snapshots)}

external_snapshots_first(server_snapshots, group_snapshots, group) ==
    LET all == {o.name : o \in {x \in server_snapshots :
                   /\ x.name \notin our_snapshot_names(group_snapshots)
                   /\ x.source \in Range(group.databases)}}
    IN IF all = {} THEN {} ELSE {CHOOSE n \in all : TRUE}

\* Objects of the group's databases that the group's metadata does not name.
external_snapshots(server_snapshots, group_snapshots, group) ==
    {o.name : o \in {x \in server_snapshots :
        /\ x.name \notin our_snapshot_names(group_snapshots)
        /\ x.source \in Range(group.databases)}}

rollback_list(p) ==
    /\ req[p].pc = "list"
    /\ \E ok \in BOOLEAN :
         /\ Outcome(ok, TRUE)
         /\ LET r == [req[p] EXCEPT !.calls = Append(@, Call("list", <<>>, <<>>, ok))]
                group_snapshots == get_snapshots(r.group.id)
                external == external_snapshots(get_snapshots_with_source,
                                               group_snapshots, r.group)
            IN req' = [req EXCEPT ![p] =
                 IF ~ok THEN Fail(r, "Failed to check snapshots")
                 ELSE IF external # {}
                 THEN [r EXCEPT !.pc = "done",
                                !.group_snapshots = group_snapshots,
                                !.response = [NoResponse EXCEPT
                                    !.status = "error",
                                    !.message = "Cannot rollback: external snapshots exist",
                                    !.external = external]]
                 ELSE [r EXCEPT !.pc = "others",
                                !.group_snapshots = group_snapshots]]
    /\ UNCHANGED openState
    /\ UNCHANGED <<profiles, nextProfile, groups, snapshots, history, settings, server, nextId,
                   maxSeqEver>>

\* Step 1 of the rollback: the loop over the group's other checkpoints.
rollback_skip_target(p) ==
    /\ req[p].pc = "others"
    /\ req[p].k <= Len(req[p].group_snapshots)
    /\ req[p].group_snapshots[req[p].k].id = req[p].snapshot.id
    /\ req' = [req EXCEPT ![p].k = @ + 1]
    /\ UNCHANGED openState
    /\ UNCHANGED <<profiles, nextProfile, groups, snapshots, history, settings, server, nextId,
                   faults, maxSeqEver>>

rollback_drop_other(p) ==
    /\ req[p].pc = "others"
    /\ req[p].k <= Len(req[p].group_snapshots)
    /\ LET other == req[p].group_snapshots[req[p].k]
       IN /\ other.id # req[p].snapshot.id
          /\ req[p].j <= Len(other.database_snapshots)
          /\ IF other.database_snapshots[req[p].j].success
             THEN DropStep(p, req[p], other.database_snapshots[req[p].j].snapshot_name)
             ELSE /\ req' = [req EXCEPT ![p].j = @ + 1]
                  /\ UNCHANGED <<server, faults>>
    /\ UNCHANGED openState
    /\ UNCHANGED <<profiles, nextProfile, groups, snapshots, history, settings, nextId, maxSeqEver>>

\* Variant of rollback_delete_other that keeps the row of a checkpoint one of
\* whose objects failed to drop.
rollback_delete_other_if_dropped(p) ==
    /\ req[p].pc = "others"
    /\ req[p].k <= Len(req[p].group_snapshots)
    /\ LET other == req[p].group_snapshots[req[p].k]
           failed == \E i \in 1..Len(req[p].calls), j \in 1..Len(other.database_snapshots) :
                        /\ req[p].calls[i].call = "drop"
                        /\ ~req[p].calls[i].ok
                        /\ req[p].calls[i].name = other.database_snapshots[j].snapshot_name
       IN /\ other.id # req[p].snapshot.id
          /\ req[p].j > Len(other.database_snapshots)
          /\ snapshots' = IF failed THEN snapshots
                          ELSE delete_snapshot_row(snapshots, other.id)
    /\ req' = [req EXCEPT ![p].k = @ + 1, ![p].j = 1]
    /\ UNCHANGED openState
    /\ UNCHANGED <<profiles, nextProfile, groups, history, settings, server, nextId, faults, maxSeqEver>>

\* Variant of rollback_delete_other that leaves the other checkpoint's row.
rollback_keep_other(p) ==
    /\ req[p].pc = "others"
    /\ req[p].k <= Len(req[p].group_snapshots)
    /\ LET other == req[p].group_snapshots[req[p].k]
       IN /\ other.id # req[p].snapshot.id
          /\ req[p].j > Len(other.database_snapshots)
    /\ req' = [req EXCEPT ![p].k = @ + 1, ![p].j = 1]
    /\ UNCHANGED openState
    /\ UNCHANGED <<profiles, nextProfile, groups, snapshots, history, settings, server, nextId, faults,
                   maxSeqEver>>

rollback_delete_other(p) ==
    /\ req[p].pc = "others"
    /\ req[p].k <= Len(req[p].group_snapshots)
    /\ LET other == req[p].group_snapshots[req[p].k]
       IN /\ other.id # req[p].snapshot.id
          /\ req[p].j > Len(other.database_snapshots)
          /\ snapshots' = delete_snapshot_row(snapshots, other.id)
    /\ req' = [req EXCEPT ![p].k = @ + 1, ![p].j = 1]
    /\ UNCHANGED openState
    /\ UNCHANGED <<profiles, nextProfile, groups, history, settings, server, nextId, faults, maxSeqEver>>

rollback_others_done(p) ==
    /\ req[p].pc = "others"
    /\ req[p].k > Len(req[p].group_snapshots)
    /\ req' = [req EXCEPT ![p].pc = "target", ![p].j = 1]
    /\ UNCHANGED openState
    /\ UNCHANGED <<profiles, nextProfile, groups, snapshots, history, settings, server, nextId,
                   faults, maxSeqEver>>

\* Step 2: the loop over the target's DatabaseSnapshots.
OperationResult(database, success, error) ==
    [database |-> database, success |-> success, error |-> error]

\* Variant of rollback_original_failed that skips the entry without a result.
rollback_original_skipped(p) ==
    /\ req[p].pc = "target"
    /\ req[p].j <= Len(req[p].snapshot.database_snapshots)
    /\ ~req[p].snapshot.database_snapshots[req[p].j].success
    /\ req' = [req EXCEPT ![p].j = @ + 1]
    /\ UNCHANGED openState
    /\ UNCHANGED <<profiles, nextProfile, groups, snapshots, history, settings, server, nextId,
                   faults, maxSeqEver>>

rollback_original_failed(p) ==
    /\ req[p].pc = "target"
    /\ req[p].j <= Len(req[p].snapshot.database_snapshots)
    /\ LET ds == req[p].snapshot.database_snapshots[req[p].j]
       IN /\ ~ds.success
          /\ req' = [req EXCEPT
                ![p].results = Append(@, OperationResult(ds.database, FALSE,
                                                         "Original snapshot failed")),
                ![p].j = @ + 1]
    /\ UNCHANGED openState
    /\ UNCHANGED <<profiles, nextProfile, groups, snapshots, history, settings, server, nextId,
                   faults, maxSeqEver>>

rollback_kill(p) ==
    /\ req[p].pc = "target"
    /\ req[p].j <= Len(req[p].snapshot.database_snapshots)
    /\ LET ds == req[p].snapshot.database_snapshots[req[p].j]
       IN /\ ds.success
          /\ \E ok \in BOOLEAN :
               /\ Outcome(ok, TRUE)
               /\ req' = [req EXCEPT
                     ![p].calls = Append(@, Call("kill", ds.database, <<>>, ok)),
                     ![p].pc = "restore"]
    /\ UNCHANGED openState
    /\ UNCHANGED <<profiles, nextProfile, groups, snapshots, history, settings, server, nextId,
                   maxSeqEver>>

\* Variant of rollback_restore that leaves the loop at the first failed restore.
rollback_restore_stop_on_failure(p) ==
    /\ req[p].pc = "restore"
    /\ LET ds == req[p].snapshot.database_snapshots[req[p].j]
       IN \E ok \in BOOLEAN :
            /\ Outcome(ok, CanRestore(ds.database, ds.snapshot_name))
            /\ req' = [req EXCEPT
                  ![p].calls = Append(@, Call("restore", ds.database,
                                              ds.snapshot_name, ok)),
                  ![p].results = Append(@, OperationResult(ds.database, ok,
                        IF ok THEN "" ELSE "Restore failed")),
                  ![p].j = IF ok THEN @ + 1
                           ELSE Len(req[p].snapshot.database_snapshots) + 1,
                  ![p].pc = "target"]
    /\ UNCHANGED openState
    /\ UNCHANGED <<profiles, nextProfile, groups, snapshots, history, settings, server, nextId,
                   maxSeqEver>>

rollback_restore(p) ==
    /\ req[p].pc = "restore"
    /\ LET ds == req[p].snapshot.database_snapshots[req[p].j]
       IN \E ok \in BOOLEAN :
            /\ Outcome(ok, CanRestore(ds.database, ds.snapshot_name))
            /\ req' = [req EXCEPT
                  ![p].calls = Append(@, Call("restore", ds.database,
                                              ds.snapshot_name, ok)),
                  ![p].results = Append(@, OperationResult(ds.database, ok,
                        IF ok THEN "" ELSE "Restore failed")),
                  ![p].j = @ + 1,
                  ![p].pc = "target"]
    /\ UNCHANGED openState
    /\ UNCHANGED <<profiles, nextProfile, groups, snapshots, history, settings, server, nextId,
                   maxSeqEver>>

SuccessCount(results) ==
    Cardinality({i \in 1..Len(results) : results[i].success})

\* Variant of AllRestored that is satisfied by one restored database.
AnyRestored(results) == SuccessCount(results) > 0

\* success_count == total_count && total_count > 0
AllRestored(results) ==
    SuccessCount(results) = Len(results) /\ Len(results) > 0

\* settings.preferences.auto_create_checkpoint && success_count == total_count
ShouldAutoCheckpoint(results) ==
    get_settings.auto_create_checkpoint /\ SuccessCount(results) = Len(results)

\* Variant of RollbackResult whose success does not ask for a non-empty list.
RollbackResult_vacuous(results) ==
    [success |-> SuccessCount(results) = Len(results),
     databases_restored |-> SuccessCount(results),
     databases_failed |-> Len(results) - SuccessCount(results),
     results |-> results]

RollbackResult(results) ==
    [success |-> AllRestored(results),
     databases_restored |-> SuccessCount(results),
     databases_failed |-> Len(results) - SuccessCount(results),
     results |-> results]

\* ApiResponse::success(result) or ApiResponse::error_with_data(.., result)
RollbackResponse(results) ==
    [NoResponse EXCEPT
        !.status = IF RollbackResult(results).success THEN "success"
                   ELSE "error_with_data",
        !.message = IF RollbackResult(results).success THEN ""
                    ELSE "Rollback failed",
        !.result = RollbackResult(results)]

rollback_restored(p) ==
    /\ req[p].pc = "target"
    /\ req[p].j > Len(req[p].snapshot.database_snapshots)
    /\ req' = [req EXCEPT
          ![p].pc = IF AllRestored(req[p].results) THEN "consume" ELSE "history",
          ![p].j = 1]
    /\ UNCHANGED openState
    /\ UNCHANGED <<profiles, nextProfile, groups, snapshots, history, settings, server, nextId,
                   faults, maxSeqEver>>

\* The target is consumed: its objects are dropped, then its row deleted.
rollback_drop_target(p) ==
    /\ req[p].pc = "consume"
    /\ req[p].j <= Len(req[p].snapshot.database_snapshots)
    /\ LET ds == req[p].snapshot.database_snapshots[req[p].j]
       IN IF ds.success
          THEN DropStep(p, req[p], ds.snapshot_name)
          ELSE /\ req' = [req EXCEPT ![p].j = @ + 1]
               /\ UNCHANGED <<server, faults>>
    /\ UNCHANGED openState
    /\ UNCHANGED <<profiles, nextProfile, groups, snapshots, history, settings, nextId, maxSeqEver>>

rollback_delete_target(p) ==
    /\ req[p].pc = "consume"
    /\ req[p].j > Len(req[p].snapshot.database_snapshots)
    /\ snapshots' = delete_snapshot_row(snapshots, req[p].snapshot.id)
    /\ req' = [req EXCEPT ![p].pc = "history"]
    /\ UNCHANGED openState
    /\ UNCHANGED <<profiles, nextProfile, groups, history, settings, server, nextId, faults, maxSeqEver>>

\* The rollback's history entry, then the auto-checkpoint decision.
rollback_history(p) ==
    /\ req[p].pc = "history"
    /\ history' = add_history(
           HistoryEntry("rollback", req[p].snapshot.id, req[p].results))
    /\ req' = [req EXCEPT ![p] =
          IF ShouldAutoCheckpoint(req[p].results)
          THEN [@ EXCEPT !.pc = "auto_db", !.k = 1, !.auto = TRUE,
                         !.sequence = get_next_sequence(req[p].group.id)]
          ELSE [@ EXCEPT !.pc = "done",
                         !.response = RollbackResponse(req[p].results)]]
    /\ UNCHANGED openState
    /\ UNCHANGED <<profiles, nextProfile, groups, snapshots, settings, server, nextId, faults, maxSeqEver>>

rollback_auto_db(p) ==
    /\ req[p].pc = "auto_db"
    /\ req[p].k <= Len(req[p].group.databases)
    /\ LET r == req[p]
           database == r.group.databases[r.k]
           name == auto_snapshot_name(database, r.group.name, r.sequence)
       IN \E ok \in BOOLEAN :
            /\ Outcome(ok, CanCreate(database, name))
            /\ server' = IF ok THEN server \cup {SnapshotObject(name, database)}
                         ELSE server
            /\ req' = [req EXCEPT ![p] = CreateOne(r, name, ok)]
    /\ UNCHANGED openState
    /\ UNCHANGED <<profiles, nextProfile, groups, snapshots, history, settings, nextId, maxSeqEver>>

rollback_auto_save(p) ==
    /\ req[p].pc = "auto_db"
    /\ req[p].k > Len(req[p].group.databases)
    /\ LET r == req[p]
           auto_snapshot == [id |-> nextId, group_id |-> r.group.id,
                             display_name |-> "Automatic",
                             sequence |-> r.sequence,
                             database_snapshots |-> r.database_snapshots,
                             is_automatic |-> TRUE]
       IN /\ snapshots' = IF KeyRejects(auto_snapshot) THEN snapshots
                          ELSE snapshots \cup {auto_snapshot}
          /\ history' = add_history(
                 HistoryEntry("create_automatic_checkpoint", auto_snapshot.id,
                              r.create_results))
          /\ maxSeqEver' = [maxSeqEver EXCEPT ![r.group.id] =
                 IF r.sequence > @ /\ ~KeyRejects(auto_snapshot)
                 THEN r.sequence ELSE @]
          /\ req' = [req EXCEPT ![p] =
                 [r EXCEPT !.pc = "done",
                           !.response = RollbackResponse(r.results)]]
    /\ nextId' = nextId + 1
    /\ UNCHANGED openState
    /\ UNCHANGED <<profiles, nextProfile, groups, settings, server, faults>>

\* ---------------------------------------------------------- group commands
\* store.get_profile(profile_id): the profile row with that id, if any.
get_profile(profile_id) == {pr \in profiles : pr.id = profile_id}

\* The Err(String) of get_profile_for_group, or "" when the profile resolves.
get_profile_for_group(group) ==
    IF group.profile_id = NoProfileId THEN "Group has no profile_id"
    ELSE IF get_profile(group.profile_id) = {} THEN "Profile not found"
    ELSE ""

\* Variant of removed_databases that counts every stored database as removed.
removed_databases_all(existing, databases) == Range(existing.databases)

\* Variant of removed_databases that reports no database as removed.
removed_databases_none(existing, databases) == {}

\* existing.databases.iter().filter(|db| !databases.contains(db))
removed_databases(existing, databases) ==
    {db \in Range(existing.databases) : db \notin Range(databases)}

\* groups.name is UNIQUE: the UPDATE of a row to a name another row holds is
\* rejected.
NameTaken(group) ==
    /\ \E g \in groups : g.id = group.id
    /\ \E g \in groups : g.id # group.id /\ g.name = group.name

\* The name the stored group has, for an update that does not rename.
StoredName(id) ==
    IF \E g \in groups : g.id = id
    THEN (CHOOSE g \in groups : g.id = id).name ELSE <<>>

update_group_start(p, id, name, databases, profile_id) ==
    /\ CanStart(p)
    /\ LET r == Begin("update_group", 0)
       IN req' = [req EXCEPT ![p] =
            IF \A g \in groups : g.id # id THEN Fail(r, "Group not found")
            ELSE LET existing == CHOOSE g \in groups : g.id = id
                     group == [existing EXCEPT
                                 !.name = name,
                                 !.databases = databases,
                                 !.profile_id = IF profile_id # NoProfileId
                                                THEN profile_id ELSE @]
                     q == [r EXCEPT !.group = existing, !.input = group]
                 IN IF removed_databases(existing, databases) = {}
                    THEN [q EXCEPT !.pc = "ug_save"]
                    ELSE IF get_profile_for_group(existing) # ""
                    THEN Fail(q, get_profile_for_group(existing))
                    ELSE [q EXCEPT !.pc = "connect"]]
    /\ UNCHANGED openState
    /\ UNCHANGED <<profiles, nextProfile, groups, snapshots, history, settings,
                   server, nextId, faults, maxSeqEver>>

\* First loop: the snapshot objects of the removed databases.
update_group_drop_removed(p) ==
    /\ req[p].pc = "ug_removed"
    /\ req[p].k <= Len(req[p].group_snapshots)
    /\ LET r == req[p]
           dss == r.group_snapshots[r.k].database_snapshots
       IN IF r.j > Len(dss)
          THEN /\ req' = [req EXCEPT ![p].k = @ + 1, ![p].j = 1]
               /\ UNCHANGED <<server, faults>>
          ELSE IF /\ dss[r.j].database
                        \in removed_databases(r.group, r.input.databases)
                  /\ dss[r.j].success
          THEN DropStep(p, r, dss[r.j].snapshot_name)
          ELSE /\ req' = [req EXCEPT ![p].j = @ + 1]
               /\ UNCHANGED <<server, faults>>
    /\ UNCHANGED openState
    /\ UNCHANGED <<profiles, nextProfile, groups, snapshots, history, settings,
                   nextId, maxSeqEver>>

\* The group's snapshots are read again for the second loop.
update_group_removed_done(p) ==
    /\ req[p].pc = "ug_removed"
    /\ req[p].k > Len(req[p].group_snapshots)
    /\ req' = [req EXCEPT ![p].pc = "ug_all", ![p].k = 1, ![p].j = 0,
                          ![p].group_snapshots = get_snapshots(req[p].group.id)]
    /\ UNCHANGED openState
    /\ UNCHANGED <<profiles, nextProfile, groups, snapshots, history, settings,
                   server, nextId, faults, maxSeqEver>>

\* Second loop: each checkpoint's row is deleted (j = 0), then its
\* successful objects are dropped.
update_group_delete_row(p) ==
    /\ req[p].pc = "ug_all"
    /\ req[p].k <= Len(req[p].group_snapshots)
    /\ req[p].j = 0
    /\ snapshots' = delete_snapshot_row(snapshots,
                                        req[p].group_snapshots[req[p].k].id)
    /\ req' = [req EXCEPT ![p].j = 1]
    /\ UNCHANGED openState
    /\ UNCHANGED <<profiles, nextProfile, groups, history, settings, server,
                   nextId, faults, maxSeqEver>>

\* Variant of update_group_drop_all that drops only what belongs to the
\* removed databases.
update_group_drop_all_removed_only(p) ==
    /\ req[p].pc = "ug_all"
    /\ req[p].k <= Len(req[p].group_snapshots)
    /\ req[p].j >= 1
    /\ LET r == req[p]
           dss == r.group_snapshots[r.k].database_snapshots
       IN IF r.j > Len(dss)
          THEN /\ req' = [req EXCEPT ![p].k = @ + 1, ![p].j = 0]
               /\ UNCHANGED <<server, faults>>
          ELSE IF /\ dss[r.j].success
                  /\ dss[r.j].database
                        \in removed_databases(r.group, r.input.databases)
          THEN DropStep(p, r, dss[r.j].snapshot_name)
          ELSE /\ req' = [req EXCEPT ![p].j = @ + 1]
               /\ UNCHANGED <<server, faults>>
    /\ UNCHANGED openState
    /\ UNCHANGED <<profiles, nextProfile, groups, snapshots, history, settings,
                   nextId, maxSeqEver>>

update_group_drop_all(p) ==
    /\ req[p].pc = "ug_all"
    /\ req[p].k <= Len(req[p].group_snapshots)
    /\ req[p].j >= 1
    /\ LET r == req[p]
           dss == r.group_snapshots[r.k].database_snapshots
       IN IF r.j > Len(dss)
          THEN /\ req' = [req EXCEPT ![p].k = @ + 1, ![p].j = 0]
               /\ UNCHANGED <<server, faults>>
          ELSE IF dss[r.j].success
          THEN DropStep(p, r, dss[r.j].snapshot_name)
          ELSE /\ req' = [req EXCEPT ![p].j = @ + 1]
               /\ UNCHANGED <<server, faults>>
    /\ UNCHANGED openState
    /\ UNCHANGED <<profiles, nextProfile, groups, snapshots, history, settings,
                   nextId, maxSeqEver>>

update_group_all_done(p) ==
    /\ req[p].pc = "ug_all"
    /\ req[p].k > Len(req[p].group_snapshots)
    /\ req' = [req EXCEPT ![p].pc = "ug_save"]
    /\ UNCHANGED openState
    /\ UNCHANGED <<profiles, nextProfile, groups, snapshots, history, settings,
                   server, nextId, faults, maxSeqEver>>

\* store.update_group(&group), the history entry and the response.
update_group_save(p) ==
    /\ req[p].pc = "ug_save"
    /\ IF NameTaken(req[p].input)
       THEN /\ req' = [req EXCEPT ![p] = Fail(@, "Failed to update group")]
            /\ UNCHANGED <<groups, history>>
       ELSE /\ groups' = {IF g.id = req[p].input.id THEN req[p].input ELSE g
                          : g \in groups}
            /\ history' = add_history(HistoryEntry("update_group", 0, <<>>))
            /\ req' = [req EXCEPT ![p].pc = "done",
                          ![p].response = [NoResponse EXCEPT !.status = "success"]]
    /\ UNCHANGED openState
    /\ UNCHANGED <<profiles, nextProfile, snapshots, settings, server, nextId,
                   faults, maxSeqEver>>

delete_group_start(p, id) ==
    /\ CanStart(p)
    /\ LET r == [Begin("delete_group", 0) EXCEPT
                    !.input = [NoGroup EXCEPT !.id = id],
                    !.group_snapshots = get_snapshots(id)]
       IN req' = [req EXCEPT ![p] =
            IF r.group_snapshots = <<>> THEN [r EXCEPT !.pc = "dg_delete"]
            ELSE IF \A g \in groups : g.id # id THEN Fail(r, "Group not found")
            ELSE LET group == CHOOSE g \in groups : g.id = id
                 IN IF get_profile_for_group(group) # ""
                    THEN Fail(r, get_profile_for_group(group))
                    ELSE [r EXCEPT !.group = group, !.pc = "connect"]]
    /\ UNCHANGED openState
    /\ UNCHANGED <<profiles, nextProfile, groups, snapshots, history, settings,
                   server, nextId, faults, maxSeqEver>>

\* The drop loop of delete_group; a failed drop is logged and skipped.
delete_group_drop(p) ==
    /\ req[p].pc = "dg_drop"
    /\ req[p].k <= Len(req[p].group_snapshots)
    /\ LET r == req[p]
           dss == r.group_snapshots[r.k].database_snapshots
       IN IF r.j > Len(dss)
          THEN /\ req' = [req EXCEPT ![p].k = @ + 1, ![p].j = 1]
               /\ UNCHANGED <<server, faults>>
          ELSE IF dss[r.j].success /\ dss[r.j].snapshot_name # <<>>
          THEN DropStep(p, r, dss[r.j].snapshot_name)
          ELSE /\ req' = [req EXCEPT ![p].j = @ + 1]
               /\ UNCHANGED <<server, faults>>
    /\ UNCHANGED openState
    /\ UNCHANGED <<profiles, nextProfile, groups, snapshots, history, settings,
                   nextId, maxSeqEver>>

delete_group_dropped(p) ==
    /\ req[p].pc = "dg_drop"
    /\ req[p].k > Len(req[p].group_snapshots)
    /\ req' = [req EXCEPT ![p].pc = "dg_delete"]
    /\ UNCHANGED openState
    /\ UNCHANGED <<profiles, nextProfile, groups, snapshots, history, settings,
                   server, nextId, faults, maxSeqEver>>

\* DELETE FROM snapshots WHERE group_id = ?
delete_snapshots_for_group(rows, group_id) ==
    {s \in rows : s.group_id # group_id}

\* store.delete_snapshots_for_group, store.delete_group, the history entry.
delete_group_finish(p) ==
    /\ req[p].pc = "dg_delete"
    /\ snapshots' = delete_snapshots_for_group(snapshots, req[p].input.id)
    /\ groups' = {g \in groups : g.id # req[p].input.id}
    /\ history' = add_history(
           [HistoryEntry("delete_group", 0, <<>>)
               EXCEPT !.dropped = req[p].dropped_count])
    /\ req' = [req EXCEPT ![p].pc = "done",
                          ![p].response = [NoResponse EXCEPT !.status = "success"]]
    /\ UNCHANGED openState
    /\ UNCHANGED <<profiles, nextProfile, settings, server, nextId, faults,
                   maxSeqEver>>

\* Variant of stale_metadata that also reports entries never created.
stale_metadata_any(server_snapshots, metadata_snapshots) ==
    LET server_snapshot_names == {o.name : o \in server_snapshots}
    IN {ds.snapshot_name :
          ds \in {d \in UNION {Range(s.database_snapshots) :
                                  s \in Range(metadata_snapshots)} :
                     d.snapshot_name \notin server_snapshot_names}}

\* ------------------------------------------------------- verify_snapshots
\* Tracked names marked successful that the server does not list.
stale_metadata(server_snapshots, metadata_snapshots) ==
    LET server_snapshot_names == {o.name : o \in server_snapshots}
    IN {ds.snapshot_name :
          ds \in {d \in UNION {Range(s.database_snapshots) :
                                  s \in Range(metadata_snapshots)} :
                     d.success /\ d.snapshot_name \notin server_snapshot_names}}

\* Listed objects of a member database that no tracked entry names; none
\* when the group does not exist.
orphaned_snapshots(server_snapshots, metadata_snapshots, group_id) ==
    LET metadata_names == our_snapshot_names(metadata_snapshots)
    IN {o.name : o \in {x \in server_snapshots :
            /\ \E g \in groups : g.id = group_id /\ x.source \in Range(g.databases)
            /\ x.name \notin metadata_names}}

verify_snapshots_start(p, has_profile, group_id) ==
    /\ CanStart(p)
    /\ LET r == Begin("verify_snapshots", 0)
       IN req' = [req EXCEPT ![p] =
            IF ~has_profile THEN Fail(r, "No active connection profile")
            ELSE [r EXCEPT !.input = [NoGroup EXCEPT !.id = group_id],
                           !.pc = "connect"]]
    /\ UNCHANGED openState
    /\ UNCHANGED <<profiles, nextProfile, groups, snapshots, history, settings,
                   server, nextId, faults, maxSeqEver>>

\* Variant of verify_snapshots_list that records the verification in the
\* history.
verify_snapshots_list_logged(p) ==
    /\ req[p].pc = "verify_list"
    /\ \E ok \in BOOLEAN :
         /\ Outcome(ok, TRUE)
         /\ LET r == [req[p] EXCEPT !.calls = Append(@, Call("list", <<>>, <<>>, ok))]
                metadata_snapshots == get_snapshots(r.input.id)
                stale == stale_metadata(get_snapshots_with_source,
                                        metadata_snapshots)
                orphaned == orphaned_snapshots(get_snapshots_with_source,
                                               metadata_snapshots, r.input.id)
            IN req' = [req EXCEPT ![p] =
                 IF ~ok THEN Fail(r, "Failed to get snapshots")
                 ELSE [r EXCEPT !.pc = "done",
                          !.response = [NoResponse EXCEPT
                              !.status = "success",
                              !.verified = (orphaned = {} /\ stale = {}),
                              !.orphaned_snapshots = orphaned,
                              !.stale_metadata = stale]]]
    /\ history' = add_history(HistoryEntry("verify_snapshots", 0, <<>>))
    /\ UNCHANGED openState
    /\ UNCHANGED <<profiles, nextProfile, groups, snapshots, settings,
                   server, nextId, maxSeqEver>>

verify_snapshots_list(p) ==
    /\ req[p].pc = "verify_list"
    /\ \E ok \in BOOLEAN :
         /\ Outcome(ok, TRUE)
         /\ LET r == [req[p] EXCEPT !.calls = Append(@, Call("list", <<>>, <<>>, ok))]
                metadata_snapshots == get_snapshots(r.input.id)
                stale == stale_metadata(get_snapshots_with_source,
                                        metadata_snapshots)
                orphaned == orphaned_snapshots(get_snapshots_with_source,
                                               metadata_snapshots, r.input.id)
            IN req' = [req EXCEPT ![p] =
                 IF ~ok THEN Fail(r, "Failed to get snapshots")
                 ELSE [r EXCEPT !.pc = "done",
                          !.response = [NoResponse EXCEPT
                              !.status = "success",
                              !.verified = (orphaned = {} /\ stale = {}),
                              !.orphaned_snapshots = orphaned,
                              !.stale_metadata = stale]]]
    /\ UNCHANGED openState
    /\ UNCHANGED <<profiles, nextProfile, groups, snapshots, history, settings,
                   server, nextId, maxSeqEver>>

\* ----------------------------------------------- check_external_snapshots
DropPrefix == <<"D", "R", "O", "P", " ", "D", "A", "T", "A", "B", "A", "S", "E",
                " ", "[">>
DropSuffix == <<"]", ";">>

\* format!("DROP DATABASE [{}];", name)
drop_command(name) == DropPrefix \o name \o DropSuffix

\* Variant of check_external_names that reports untracked objects of any
\* database.
check_external_names_any_source(server_snapshots, group_snapshots, group) ==
    {o.name : o \in {x \in server_snapshots :
        x.name \notin our_snapshot_names(group_snapshots)}}

\* The filter of check_external_snapshots over the server listing.
check_external_names(server_snapshots, group_snapshots, group) ==
    {o.name : o \in {x \in server_snapshots :
        /\ x.name \notin our_snapshot_names(group_snapshots)
        /\ x.source \in Range(group.databases)}}

check_external_snapshots_start(p, has_profile, id) ==
    /\ CanStart(p)
    /\ LET r == Begin("check_external_snapshots", id)
       IN req' = [req EXCEPT ![p] =
            IF ~has_profile THEN Fail(r, "No active connection profile")
            ELSE IF FindSnapshot(id) = {} THEN Fail(r, "Snapshot not found")
            ELSE LET s == CHOOSE x \in FindSnapshot(id) : TRUE
                 IN [r EXCEPT !.snapshot = s, !.group = GroupOf(s),
                              !.pc = "connect"]]
    /\ UNCHANGED openState
    /\ UNCHANGED <<profiles, nextProfile, groups, snapshots, history, settings,
                   server, nextId, faults, maxSeqEver>>

check_external_snapshots_list(p) ==
    /\ req[p].pc = "check_list"
    /\ \E ok \in BOOLEAN :
         /\ Outcome(ok, TRUE)
         /\ LET r == [req[p] EXCEPT !.calls = Append(@, Call("list", <<>>, <<>>, ok))]
                external == check_external_names(get_snapshots_with_source,
                                get_snapshots(r.group.id), r.group)
            IN req' = [req EXCEPT ![p] =
                 IF ~ok THEN Fail(r, "Failed to check snapshots")
                 ELSE [r EXCEPT !.pc = "done",
                          !.response = [NoResponse EXCEPT
                              !.status = "success",
                              !.has_external_snapshots = (external # {}),
                              !.external = external,
                              !.drop_commands =
                                  {drop_command(n) : n \in external}]]]
    /\ UNCHANGED openState
    /\ UNCHANGED <<profiles, nextProfile, groups, snapshots, history, settings,
                   server, nextId, maxSeqEver>>

\* ------------------------------------------------------- profile commands
ProfileNames == {"n1", "n2"}
Hosts == {"h1", "h2"}
\* isActive: Option<bool>
IsActiveInputs == {"none", "true", "false"}

ActiveProfiles(ps) == {pr \in ps : pr.is_active}

\* UPDATE profiles SET is_active = 0 WHERE id != keep
Deactivate(ps, keep) ==
    {IF pr.id = keep THEN pr ELSE [pr EXCEPT !.is_active = FALSE] : pr \in ps}

\* The repair of the active flag: with profiles and none active, the first
\* one is flagged.
ensure_active_profile(ps) ==
    IF ps = {} \/ ActiveProfiles(ps) # {} THEN ps
    ELSE LET first == CHOOSE pr \in ps : \A o \in ps : pr.id <= o.id
         IN {IF pr = first THEN [pr EXCEPT !.is_active = TRUE] ELSE pr : pr \in ps}

\* MetadataStore::create_profile: the others are deactivated in a statement
\* of its own before the INSERT, which the UNIQUE name can reject.
store_create_profile(ps, profile) ==
    LET ps1 == IF profile.is_active THEN Deactivate(ps, 0) ELSE ps
    IN IF \E pr \in ps : pr.name = profile.name
       THEN [ok |-> FALSE, profiles |-> ps1]
       ELSE [ok |-> TRUE, profiles |-> ps1 \cup {profile}]

\* MetadataStore::update_profile: likewise two statements.
store_update_profile(ps, profile) ==
    LET ps1 == IF profile.is_active THEN Deactivate(ps, profile.id) ELSE ps
    IN IF \E pr \in ps : pr.id # profile.id /\ pr.name = profile.name
       THEN [ok |-> FALSE, profiles |-> ps1]
       ELSE [ok |-> TRUE,
             profiles |-> {IF pr.id = profile.id THEN profile ELSE pr : pr \in ps1}]

\* MetadataStore::set_active_profile: all off, then the one with that id on.
store_set_active_profile(ps, profile_id) ==
    {[pr EXCEPT !.is_active = (pr.id = profile_id)] : pr \in ps}

\* SELECT ... WHERE host = ? AND port = ? AND username = ? LIMIT 1
find_profile_by_connection(ps, host) == {pr \in ps : pr.host = host}

ProfileDone(op, ok, message) ==
    [Begin(op, 0) EXCEPT
        !.pc = "done",
        !.response = IF ok THEN [NoResponse EXCEPT !.status = "success"]
                     ELSE ErrorResponse(message)]

\* Variant of get_profiles that lists the profiles without the repair.
get_profiles_listing_only(p) ==
    /\ Idle
    /\ profiles' = profiles
    /\ req' = [req EXCEPT ![p] = ProfileDone("get_profiles", TRUE, "")]
    /\ UNCHANGED openState
    /\ UNCHANGED <<nextProfile, groups, snapshots, history, settings, server,
                   nextId, faults, maxSeqEver>>

get_profiles(p) ==
    /\ Idle
    /\ profiles' = ensure_active_profile(profiles)
    /\ req' = [req EXCEPT ![p] = ProfileDone("get_profiles", TRUE, "")]
    /\ UNCHANGED openState
    /\ UNCHANGED <<nextProfile, groups, snapshots, history, settings, server,
                   nextId, faults, maxSeqEver>>

create_profile(p, name, host, isActive) ==
    /\ Idle
    /\ nextProfile <= MaxProfiles
    /\ LET should_be_active == IF isActive = "none" THEN profiles = {}
                               ELSE isActive = "true"
           profile == [id |-> nextProfile, name |-> name, host |-> host,
                       is_active |-> should_be_active]
           res == store_create_profile(profiles, profile)
       IN /\ profiles' = IF res.ok THEN ensure_active_profile(res.profiles)
                         ELSE res.profiles
          /\ req' = [req EXCEPT ![p] =
                 ProfileDone("create_profile", res.ok, "Failed to create profile")]
    /\ nextProfile' = nextProfile + 1
    /\ UNCHANGED openState
    /\ UNCHANGED <<groups, snapshots, history, settings, server, nextId, faults,
                   maxSeqEver>>

update_profile(p, profile_id, name, host, isActive) ==
    /\ Idle
    /\ IF get_profile(profile_id) = {}
       THEN /\ req' = [req EXCEPT ![p] =
                   ProfileDone("update_profile", FALSE, "Profile not found")]
            /\ UNCHANGED profiles
       ELSE LET existing_profile == CHOOSE pr \in profiles : pr.id = profile_id
                is_active == IF isActive = "none" THEN existing_profile.is_active
                             ELSE isActive = "true"
                profile == [id |-> profile_id, name |-> name, host |-> host,
                            is_active |-> is_active]
                res == store_update_profile(profiles, profile)
            IN /\ profiles' = IF res.ok THEN ensure_active_profile(res.profiles)
                              ELSE res.profiles
               /\ req' = [req EXCEPT ![p] =
                      ProfileDone("update_profile", res.ok,
                                  "Failed to update profile")]
    /\ UNCHANGED openState
    /\ UNCHANGED <<nextProfile, groups, snapshots, history, settings, server,
                   nextId, faults, maxSeqEver>>

delete_profile(p, profile_id) ==
    /\ Idle
    /\ profiles' = ensure_active_profile({pr \in profiles : pr.id # profile_id})
    /\ req' = [req EXCEPT ![p] = ProfileDone("delete_profile", TRUE, "")]
    /\ UNCHANGED openState
    /\ UNCHANGED <<nextProfile, groups, snapshots, history, settings, server,
                   nextId, faults, maxSeqEver>>

set_active_profile(p, profile_id) ==
    /\ Idle
    /\ profiles' = store_set_active_profile(profiles, profile_id)
    /\ req' = [req EXCEPT ![p] = ProfileDone("set_active_profile", TRUE, "")]
    /\ UNCHANGED openState
    /\ UNCHANGED <<nextProfile, groups, snapshots, history, settings, server,
                   nextId, faults, maxSeqEver>>

\* save_connection: updates the profile with that connection or creates one
\* named "Migrated", active either way.
save_connection(p, host) ==
    /\ Idle
    /\ IF find_profile_by_connection(profiles, host) # {}
       THEN \E existing \in find_profile_by_connection(profiles, host) :
              LET res == store_update_profile(profiles,
                             [existing EXCEPT !.is_active = TRUE])
              IN /\ profiles' = res.profiles
                 /\ req' = [req EXCEPT ![p] =
                        ProfileDone("save_connection", res.ok,
                                    "Failed to update profile")]
                 /\ UNCHANGED nextProfile
       ELSE /\ nextProfile <= MaxProfiles
            /\ LET res == store_create_profile(profiles,
                              [id |-> nextProfile, name |-> "Migrated",
                               host |-> host, is_active |-> TRUE])
               IN /\ profiles' = res.profiles
                  /\ req' = [req EXCEPT ![p] =
                         ProfileDone("save_connection", res.ok,
                                     "Failed to create profile")]
            /\ nextProfile' = nextProfile + 1
    /\ UNCHANGED openState
    /\ UNCHANGED <<groups, snapshots, history, settings, server, nextId, faults,
                   maxSeqEver>>

\* ------------------------------------- store calls of concurrent requests
\* Every command opens a MetadataStore of its own: a connection of its own
\* behind a mutex of its own. Statements of different requests interleave.
\* First statement of MetadataStore::set_active_profile.
set_active_profile_deactivate(p, profile_id) ==
    /\ req[p].op = "idle"
    /\ profiles' = Deactivate(profiles, 0)
    /\ req' = [req EXCEPT ![p] =
          [Begin("set_active_profile", profile_id) EXCEPT !.pc = "sap_activate"]]
    /\ UNCHANGED openState
    /\ UNCHANGED <<nextProfile, groups, snapshots, history, settings, server,
                   nextId, faults, maxSeqEver>>

\* Second statement: UPDATE profiles SET is_active = 1 WHERE id = ?
set_active_profile_activate(p) ==
    /\ req[p].pc = "sap_activate"
    /\ profiles' = {IF pr.id = req[p].id THEN [pr EXCEPT !.is_active = TRUE]
                    ELSE pr : pr \in profiles}
    /\ req' = [req EXCEPT ![p].pc = "done",
                          ![p].response = [NoResponse EXCEPT !.status = "success"]]
    /\ UNCHANGED openState
    /\ UNCHANGED <<nextProfile, groups, snapshots, history, settings, server,
                   nextId, faults, maxSeqEver>>

\* get_connection: one read, store.get_active_profile().
get_connection(p) ==
    /\ req[p].op = "idle"
    /\ req' = [req EXCEPT ![p] =
          [Begin("get_connection", 0) EXCEPT
              !.pc = "done",
              !.response = [NoResponse EXCEPT
                  !.status = "success",
                  !.message = IF ActiveProfiles(profiles) = {} THEN "None"
                              ELSE "Some"]]]
    /\ UNCHANGED openState
    /\ UNCHANGED <<profiles, nextProfile, groups, snapshots, history, settings,
                   server, nextId, faults, maxSeqEver>>

NextStore ==
    \E p \in Procs :
        \/ \E id \in 1..MaxProfiles : set_active_profile_deactivate(p, id)
        \/ set_active_profile_activate(p)
        \/ get_connection(p)
        \/ Return(p)

SpecStore == Init /\ [][NextStore]_vars

ProfileIdInputs == 1..MaxProfiles

StepProfiles(p) ==
    \/ get_profiles(p)
    \/ \E name \in ProfileNames, host \in Hosts, isActive \in IsActiveInputs :
           create_profile(p, name, host, isActive)
    \/ \E id \in ProfileIdInputs, name \in ProfileNames, host \in Hosts,
          isActive \in IsActiveInputs :
           update_profile(p, id, name, host, isActive)
    \/ \E id \in ProfileIdInputs : delete_profile(p, id)
    \/ \E id \in ProfileIdInputs : set_active_profile(p, id)
    \/ \E host \in Hosts : save_connection(p, host)
    \/ Return(p)

NextProfiles == StepProfiles(1)

SpecProfiles == Init /\ [][NextProfiles]_vars

GroupIdInputs == {"g1", "g2", "g0"}

Step(p) ==
    \/ \E has_profile \in BOOLEAN, g \in GroupIdInputs :
           create_snapshot_start(p, has_profile, g)
    \/ create_snapshot_db(p)
    \/ create_snapshot_save(p)
    \/ \E has_profile \in BOOLEAN, id \in 1..MaxIds :
           delete_snapshot_start(p, has_profile, id)
    \/ delete_snapshot_drop(p)
    \/ delete_snapshot_finish(p)
    \/ \E has_profile \in BOOLEAN, id \in 1..MaxIds :
           cleanup_snapshot_start(p, has_profile, id)
    \/ cleanup_snapshot_drop(p)
    \/ cleanup_snapshot_finish(p)
    \/ \E has_profile \in BOOLEAN, id \in 1..MaxIds :
           rollback_snapshot_start(p, has_profile, id)
    \/ Connect(p)
    \/ rollback_list(p)
    \/ rollback_skip_target(p)
    \/ rollback_drop_other(p)
    \/ rollback_delete_other(p)
    \/ rollback_others_done(p)
    \/ rollback_original_failed(p)
    \/ rollback_kill(p)
    \/ rollback_restore(p)
    \/ rollback_restored(p)
    \/ rollback_drop_target(p)
    \/ rollback_delete_target(p)
    \/ rollback_history(p)
    \/ rollback_auto_db(p)
    \/ rollback_auto_save(p)
    \/ Return(p)

Environment ==
    \/ \E v \in BOOLEAN :
           update_settings(v, BundledSettings.max_history_entries)
    \/ \E n \in ExtNames, d \in ServerDBs : ExternalCreate(n, d)

\* One command at a time.
Next == Step(1) \/ Environment

Spec == Init /\ [][Next]_vars

\* ------------------------------------------------------------ store open
\* The version below which check_and_migrate imports config.json.
ProfilesVersion == <<1, 3, 0>>

\* The builds of the application that open the store.
Versions == {<<1, 2, 0>>, <<1, 2, 1>>, <<1, 3, 0>>}

\* Settings::default(): the derived Default of SettingsPreferences.
DefaultSettings == [auto_create_checkpoint |-> FALSE, max_history_entries |-> 0]

\* The config.json files of earlier builds: a map from profile key to
\* ConnectionProfile, the key of the active profile and the preferences.
LegacyConfigs ==
    LET default == {[key |-> "default", name |-> "n1", host |-> "h1",
                     password |-> pw] : pw \in {"", "pw"}}
        k1 == {[key |-> "k1", name |-> n, host |-> "h2", password |-> pw] :
                   n \in {"n1", "Migrated"}, pw \in {"", "pw"}}
    IN {[exists |-> TRUE, active_profile |-> a, profiles |-> d \cup k,
         max_history_entries |-> n] :
            d \in {{}} \cup {{e} : e \in default},
            k \in {{}} \cup {{e} : e \in k1},
            a \in {"default", "k1"},
            n \in {50, 100}}

\* The orders in which a HashMap of these entries can be iterated.
IterationOrders(S) ==
    {o \in [1..Cardinality(S) -> S] : \A e \in S : \E i \in DOMAIN o : o[i] = e}

\* compare_versions: -1, 0 or 1, a missing component counting as 0.
compare_versions(v1, v2) ==
    LET n == IF Len(v1) > Len(v2) THEN Len(v1) ELSE Len(v2)
        part(v, i) == IF i <= Len(v) THEN v[i] ELSE 0
        differ == {i \in 1..n : part(v1, i) # part(v2, i)}
    IN IF differ = {} THEN 0
       ELSE LET i == CHOOSE k \in differ : \A j \in differ : k <= j
            IN IF part(v1, i) < part(v2, i) THEN -1 ELSE 1

\* Variant of initialize that seeds the settings row with INSERT OR REPLACE.
initialize_replace(st) ==
    [st EXCEPT
        !.settings = {[id |-> 1, data |-> DefaultSettings]},
        !.metadata = IF \E row \in @ : row.key = "last_version_seen" THEN @
                     ELSE @ \cup {[key |-> "last_version_seen",
                                   value |-> Version0]}]

\* initialize: INSERT OR IGNORE of the settings row and of the marker.
initialize(st) ==
    [st EXCEPT
        !.settings = IF \E row \in @ : row.id = 1 THEN @
                     ELSE @ \cup {[id |-> 1, data |-> DefaultSettings]},
        !.metadata = IF \E row \in @ : row.key = "last_version_seen" THEN @
                     ELSE @ \cup {[key |-> "last_version_seen",
                                   value |-> Version0]}]

get_last_version_seen(rows) ==
    IF \E row \in rows : row.key = "last_version_seen"
    THEN (CHOOSE row \in rows : row.key = "last_version_seen").value
    ELSE Version0

\* INSERT OR REPLACE INTO _metadata
update_last_version_seen(rows, version) ==
    {row \in rows : row.key # "last_version_seen"}
        \cup {[key |-> "last_version_seen", value |-> version]}

\* migrate_config_preferences: the stored settings, with config.json's
\* max_history_entries when the stored one is 100 and config.json's is not.
migrate_config_preferences(st) ==
    LET stored == IF \E row \in st.settings : row.id = 1
                  THEN (CHOOSE row \in st.settings : row.id = 1).data
                  ELSE DefaultSettings
        data == IF stored.max_history_entries = 100
                   /\ st.config.max_history_entries # 100
                THEN [stored EXCEPT !.max_history_entries =
                                        st.config.max_history_entries]
                ELSE stored
    IN [st EXCEPT !.settings =
           {IF row.id = 1 THEN [row EXCEPT !.data = data] ELSE row : row \in @}]

\* The INSERT loop of migrate_config_json_to_profiles over the entries in
\* iteration order; the UNIQUE name rejects an INSERT and `?` leaves the loop.
RECURSIVE insert_profiles(_, _, _)
insert_profiles(st, order, i) ==
    IF i > Len(order) THEN st
    ELSE LET entry == order[i]
             name == IF entry.key = "default" THEN "Migrated" ELSE entry.name
             row == [id |-> st.nextProfile, name |-> name, host |-> entry.host,
                     is_active |-> entry.key = st.config.active_profile]
         IN IF entry.password = "" THEN insert_profiles(st, order, i + 1)
            ELSE IF \E pr \in st.profiles : pr.name = name
            THEN [st EXCEPT !.failed = TRUE]
            ELSE insert_profiles(
                     [st EXCEPT !.profiles = @ \cup {row},
                                !.nextProfile = @ + 1,
                                !.migrated = @ + 1], order, i + 1)

\* Variant of migrate_config_json_to_profiles without the profile_count test.
migrate_config_json_to_profiles_unguarded(st, order) ==
    IF ~st.config.exists THEN st
    ELSE LET st1 == insert_profiles(st, order, 1)
             st2 == migrate_config_preferences(st1)
         IN IF st1.failed THEN st1
            ELSE [st2 EXCEPT
                    !.history =
                        IF st1.migrated > 0 /\ historyWritable
                        THEN Append(@, HistoryEntry("migrate_config_to_profiles",
                                                    0, <<>>))
                        ELSE @,
                    !.config = NoConfig]

migrate_config_json_to_profiles(st, order) ==
    IF ~st.config.exists THEN st
    ELSE IF st.profiles # {} THEN migrate_config_preferences(st)
    ELSE LET st1 == insert_profiles(st, order, 1)
             st2 == migrate_config_preferences(st1)
         IN IF st1.failed THEN st1
            ELSE [st2 EXCEPT
                    !.history =
                        IF st1.migrated > 0 /\ historyWritable
                        THEN Append(@, HistoryEntry("migrate_config_to_profiles",
                                                    0, <<>>))
                        ELSE @,
                    !.config = NoConfig]

\* Variant of check_and_migrate that records the version only after an
\* import without error.
check_and_migrate_on_success(st, order, current_version) ==
    LET last_version == get_last_version_seen(st.metadata)
    IN IF last_version = current_version THEN st
       ELSE IF compare_versions(last_version, ProfilesVersion) < 0
       THEN LET st1 == migrate_config_json_to_profiles(st, order)
            IN [st1 EXCEPT
                   !.log = Append(@, Call("import", <<>>, <<>>, ~st1.failed))
                               \o (IF st1.failed THEN <<>>
                                   ELSE <<Call("marker", <<>>, <<>>, TRUE)>>),
                   !.metadata = IF st1.failed THEN @
                                ELSE update_last_version_seen(@, current_version)]
       ELSE [st EXCEPT
                !.log = Append(@, Call("marker", <<>>, <<>>, TRUE)),
                !.metadata = update_last_version_seen(@, current_version)]

\* check_and_migrate: nothing when the marker is the running version;
\* otherwise the import when the marker is below 1.3.0, its error discarded,
\* and then the marker.
check_and_migrate(st, order, current_version) ==
    LET last_version == get_last_version_seen(st.metadata)
        st1 == IF compare_versions(last_version, ProfilesVersion) < 0
               THEN LET m == migrate_config_json_to_profiles(st, order)
                    IN [m EXCEPT !.log =
                           Append(@, Call("import", <<>>, <<>>, ~m.failed))]
               ELSE st
    IN IF last_version = current_version THEN st
       ELSE [st1 EXCEPT
                !.log = Append(@, Call("marker", <<>>, <<>>, TRUE)),
                !.metadata = update_last_version_seen(@, current_version)]

\* MetadataStore::open: the bundled database is copied when the store has no
\* file, then initialize and check_and_migrate run.
open(p, bundled, order) ==
    /\ CanStart(p)
    /\ order \in IterationOrders(config.profiles)
    /\ nextProfile + Cardinality(config.profiles) <= MaxProfiles + 1
    /\ LET st0 == [profiles |-> profiles, nextProfile |-> nextProfile,
                   settings |-> settings, metadata |-> metadata,
                   history |-> history, config |-> config,
                   failed |-> FALSE, migrated |-> 0, log |-> <<>>]
           st1 == IF metadata = {} /\ bundled
                  THEN [st0 EXCEPT
                          !.settings = {[id |-> 1, data |-> BundledSettings]},
                          !.metadata = {[key |-> "last_version_seen",
                                         value |-> Version0]}]
                  ELSE st0
           st == check_and_migrate(initialize(st1), order, running)
       IN /\ profiles' = st.profiles
          /\ nextProfile' = st.nextProfile
          /\ settings' = st.settings
          /\ metadata' = st.metadata
          /\ history' = st.history
          /\ config' = st.config
          /\ req' = [req EXCEPT ![p] =
                 [ProfileDone("open", TRUE, "") EXCEPT !.calls = st.log]]
    /\ UNCHANGED <<groups, snapshots, server, nextId, faults, maxSeqEver,
                   clock, running, historyWritable, serial, foreign_keys>>

\* Another build of the application is installed.
VersionChange(version) ==
    /\ Idle
    /\ version # running
    /\ running' = version
    /\ UNCHANGED <<profiles, nextProfile, groups, snapshots, history, settings,
                   server, req, nextId, faults, maxSeqEver, clock, metadata,
                   config, historyWritable, serial, foreign_keys>>

\* AppConfig::save: config.json is written, by a build that keeps its
\* profiles there or by AppConfig::load creating the file.
LegacyConfigWritten(c) ==
    /\ Idle
    /\ ~config.exists
    /\ config' = c
    /\ UNCHANGED <<profiles, nextProfile, groups, snapshots, history, settings,
                   server, req, nextId, faults, maxSeqEver, clock, metadata,
                   running, historyWritable, serial, foreign_keys>>

\* A store that was never opened, beside the config.json of an earlier build.
InitOpen ==
    /\ profiles = {}
    /\ nextProfile = 1
    /\ groups = {}
    /\ snapshots = {}
    /\ history = <<>>
    /\ settings = {}
    /\ clock = 0
    /\ metadata = {}
    /\ config \in LegacyConfigs \cup {NoConfig}
    /\ running \in Versions
    /\ historyWritable = TRUE
    /\ serial = TRUE
    /\ foreign_keys = FALSE
    /\ server = {}
    /\ req = [p \in Procs |-> IdleReq]
    /\ nextId = 1
    /\ faults = 0
    /\ maxSeqEver = [g \in {"g1", "g2", "g3"} |-> 0]

\* Every command opens the store before anything else; that open changes
\* nothing once the marker is the running version.
Opened == settings # {} /\ get_last_version_seen(metadata) = running

NextOpen ==
    \/ \E bundled \in BOOLEAN, order \in IterationOrders(config.profiles) :
           open(1, bundled, order)
    \/ Return(1)
    \/ Opened /\ \E name \in ProfileNames : create_profile(1, name, "h1", "none")
    \/ Opened /\ \E id \in ProfileIdInputs : delete_profile(1, id)
    \/ Opened /\ \E n \in {50, 100} : update_settings(TRUE, n)
    \/ \E version \in Versions : VersionChange(version)
    \/ \E c \in LegacyConfigs : LegacyConfigWritten(c)

SpecOpen == InitOpen /\ [][NextOpen]_vars

\* ------------------------------------------------------------ create_group
\* The names a user gives to a new group.
GroupNameInputs == {<<"q", "_", "a">>, <<"q", " ", "a">>}

\* create_group: the INSERT, which the UNIQUE name can reject, and on success
\* the history entry. The new row's id stands for the fresh UUID.
create_group(p, name, databases) ==
    /\ CanStart(p)
    /\ \A g \in groups : g.id # "g3"
    /\ LET r == Begin("create_group", 0)
           group == [id |-> "g3", name |-> name, databases |-> databases,
                     profile_id |-> 1]
       IN IF \E g \in groups : g.name = name
          THEN /\ req' = [req EXCEPT ![p] = Fail(r, "Failed to create group")]
               /\ UNCHANGED <<groups, history>>
          ELSE /\ groups' = groups \cup {group}
               /\ history' = add_history(HistoryEntry("create_group", 0, <<>>))
               /\ req' = [req EXCEPT ![p] =
                      [r EXCEPT !.pc = "done", !.group = group,
                                !.response = [NoResponse EXCEPT
                                                 !.status = "success"]]]
    /\ UNCHANGED openState
    /\ UNCHANGED <<profiles, nextProfile, snapshots, settings, server, nextId,
                   faults, maxSeqEver>>

\* Groups are created and checkpoints taken of them.
NextNames ==
    \/ \E name \in GroupNameInputs, databases \in {<<DbA>>, <<DbB, DbA>>} :
           create_group(1, name, databases)
    \/ \E g \in {"g1", "g3"} : create_snapshot_start(1, TRUE, g)
    \/ Connect(1)
    \/ create_snapshot_db(1)
    \/ create_snapshot_save(1)
    \/ Return(1)

SpecNames == Init /\ [][NextNames]_vars

\* ------------------------------------------------- concurrent commands
\* The store of Init, with a front end that issues commands without waiting
\* for the previous one to return.
InitConcurrent ==
    /\ profiles = {Profile1}
    /\ nextProfile = 2
    /\ groups = {Group1, Group2}
    /\ snapshots = {}
    /\ history = <<>>
    /\ settings = {[id |-> 1, data |-> BundledSettings]}
    /\ clock = 0
    /\ metadata = {[key |-> "last_version_seen", value |-> RunningVersion]}
    /\ config = NoConfig
    /\ running = RunningVersion
    /\ historyWritable = TRUE
    /\ serial = FALSE
    /\ foreign_keys \in BOOLEAN
    /\ server = {}
    /\ req = [p \in Procs |-> IdleReq]
    /\ nextId = 1
    /\ faults = 0
    /\ maxSeqEver = [g \in {"g1", "g2", "g3"} |-> 0]

\* Create-checkpoint requests on one group, interleaved between their store
\* calls and remote calls.
NextCreateRace ==
    \E p \in Procs :
        \/ create_snapshot_start(p, TRUE, "g1")
        \/ Connect(p)
        \/ create_snapshot_db(p)
        \/ create_snapshot_save(p)
        \/ Return(p)

SpecCreateRace == InitConcurrent /\ [][NextCreateRace]_vars

\* Rollback requests on one group, interleaved between their store calls and
\* remote calls, after checkpoints were taken; each front end rolls back to
\* a checkpoint of its own (request p to the checkpoint with id p).
NextRollbackRace ==
    \/ Idle /\ create_snapshot_start(1, TRUE, "g1")
    \/ create_snapshot_db(1)
    \/ create_snapshot_save(1)
    \/ \E p \in Procs :
          \/ /\ \A q \in Procs : req[q].op \in {"idle", "rollback_snapshot"}
             /\ rollback_snapshot_start(p, TRUE, p)
          \/ Connect(p)
          \/ rollback_list(p)
          \/ rollback_skip_target(p)
          \/ rollback_drop_other(p)
          \/ rollback_delete_other(p)
          \/ rollback_others_done(p)
          \/ rollback_original_failed(p)
          \/ rollback_kill(p)
          \/ rollback_restore(p)
          \/ rollback_restored(p)
          \/ rollback_drop_target(p)
          \/ rollback_delete_target(p)
          \/ rollback_history(p)
          \/ rollback_auto_db(p)
          \/ rollback_auto_save(p)
          \/ Return(p)

SpecRollbackRace == InitConcurrent /\ [][NextRollbackRace]_vars

\* ------------------------------------- groups with disjoint database sets
TruthfulDatabases == {<<DbA, DbB>>, <<DbA>>, <<DbB>>}

\* No database is a member of two groups.
PairwiseDisjoint(gs) ==
    \A g \in gs : \A h \in gs :
        g.id # h.id => Range(g.databases) \cap Range(h.databases) = {}

\* Every checkpoint and group command, one at a time, on a server nobody
\* else touches; the database lists entered keep the groups disjoint.
NextTruthful ==
    \/ Step(1)
    \/ \E g \in {"g1", "g2"}, databases \in TruthfulDatabases :
           /\ PairwiseDisjoint({h \in groups : h.id # g}
                  \cup {[NoGroup EXCEPT !.id = g, !.databases = databases]})
           /\ update_group_start(1, g, StoredName(g), databases, 1)
    \/ update_group_drop_removed(1)
    \/ update_group_removed_done(1)
    \/ update_group_delete_row(1)
    \/ update_group_drop_all(1)
    \/ update_group_all_done(1)
    \/ update_group_save(1)
    \/ \E g \in {"g1", "g2"} : delete_group_start(1, g)
    \/ delete_group_drop(1)
    \/ delete_group_dropped(1)
    \/ delete_group_finish(1)
    \/ \E databases \in {<<DbB>>} :
           /\ PairwiseDisjoint(groups
                  \cup {[NoGroup EXCEPT !.id = "g3", !.databases = databases]})
           /\ create_group(1, <<"n">>, databases)
    \/ \E v \in BOOLEAN :
           update_settings(v, BundledSettings.max_history_entries)

SpecTruthful == Init /\ [][NextTruthful]_vars

\* ----------------------------------------- group updates that may rename
\* Checkpoints are taken and groups are edited, name included.
NextGroupUpdate ==
    \/ \E g \in {"g1", "g2"} : create_snapshot_start(1, TRUE, g)
    \/ create_snapshot_db(1)
    \/ create_snapshot_save(1)
    \/ \E g \in {"g1", "g2"}, name \in {Group1.name, Group2.name, <<"n">>},
          databases \in {<<DbA, DbB>>, <<DbA>>} :
           update_group_start(1, g, name, databases, NoProfileId)
    \/ update_group_drop_removed(1)
    \/ update_group_removed_done(1)
    \/ update_group_delete_row(1)
    \/ update_group_drop_all(1)
    \/ update_group_all_done(1)
    \/ update_group_save(1)
    \/ Connect(1)
    \/ Return(1)

SpecGroupUpdate == Init /\ [][NextGroupUpdate]_vars

\* Checkpoints of a group are taken while the group is deleted.
NextDeleteRace ==
    \/ create_snapshot_start(1, TRUE, "g1")
    \/ create_snapshot_db(1)
    \/ create_snapshot_save(1)
    \/ delete_group_start(2, "g1")
    \/ delete_group_drop(2)
    \/ delete_group_dropped(2)
    \/ delete_group_finish(2)
    \/ \E p \in Procs : Connect(p)
    \/ \E p \in Procs : Return(p)

SpecDeleteRace == InitConcurrent /\ [][NextDeleteRace]_vars

\* ------------------------------------------ two groups sharing a database
\* A second group over database A is created; checkpoints of both groups
\* are taken and rolled back to, one command at a time.
NextShared ==
    \/ \E name \in {<<"q", "_", "a">>, <<"n">>} : create_group(1, name, <<DbA>>)
    \/ \E g \in {"g1", "g3"} : create_snapshot_start(1, TRUE, g)
    \/ create_snapshot_db(1)
    \/ create_snapshot_save(1)
    \/ \E id \in 1..MaxIds : rollback_snapshot_start(1, TRUE, id)
    \/ Connect(1)
    \/ rollback_list(1)
    \/ rollback_skip_target(1)
    \/ rollback_drop_other(1)
    \/ rollback_delete_other(1)
    \/ rollback_others_done(1)
    \/ rollback_original_failed(1)
    \/ rollback_kill(1)
    \/ rollback_restore(1)
    \/ rollback_restored(1)
    \/ rollback_drop_target(1)
    \/ rollback_delete_target(1)
    \/ rollback_history(1)
    \/ rollback_auto_db(1)
    \/ rollback_auto_save(1)
    \/ Return(1)

SpecShared == Init /\ [][NextShared]_vars

\* ---------------------------------------------------- specification: audit
\* The history table stops or resumes accepting rows (store.add_history
\* returning Err: disk full, table locked by another connection).
HistoryWriteChange(w) ==
    /\ Idle
    /\ w # historyWritable
    /\ ~w => faults < MaxFaults
    /\ historyWritable' = w
    /\ faults' = IF w THEN faults ELSE faults + 1
    /\ UNCHANGED <<profiles, nextProfile, groups, snapshots, history, settings,
                   server, req, nextId, maxSeqEver, clock, metadata,
                   config, running, serial, foreign_keys>>

\* The snapshot commands, with a history table that may refuse writes.
NextAudit ==
    \/ Step(1)
    \/ \E v \in BOOLEAN :
           update_settings(v, BundledSettings.max_history_entries)
    \/ \E w \in BOOLEAN : HistoryWriteChange(w)

SpecAudit == Init /\ [][NextAudit]_vars

\* ------------------------------------------------- specification: history
\* The wall clock is set by the system, not necessarily forwards.
ClockChange(t) ==
    /\ Idle
    /\ t # clock
    /\ clock' = t
    /\ UNCHANGED <<profiles, nextProfile, groups, snapshots, history, settings,
                   server, req, nextId, faults, maxSeqEver, metadata, config,
                   running, historyWritable, serial, foreign_keys>>

\* The history without the entries at the positions in D.
WithoutPositions(h, D) ==
    LET RECURSIVE keep(_)
        keep(i) == IF i > Len(h) THEN <<>>
                   ELSE (IF i \in D THEN <<>> ELSE <<h[i]>>) \o keep(i + 1)
    IN keep(1)

\* DELETE FROM history
clear_history(p) ==
    /\ Idle
    /\ history' = <<>>
    /\ req' = [req EXCEPT ![p] = ProfileDone("clear_history", TRUE, "")]
    /\ UNCHANGED openState
    /\ UNCHANGED <<profiles, nextProfile, groups, snapshots, settings, server,
                   nextId, faults, maxSeqEver>>

\* Variant of trim_history that evicts the newest entries.
trim_history_newest(p) ==
    /\ Idle
    /\ LET max_entries == get_settings.max_history_entries
           count == Len(history)
           to_delete == IF count <= max_entries THEN 0 ELSE count - max_entries
       IN \E D \in SUBSET (1..count) :
            /\ Cardinality(D) = to_delete
            /\ \A i \in D, j \in (1..count) \ D :
                   history[i].timestamp >= history[j].timestamp
            /\ history' = WithoutPositions(history, D)
            /\ req' = [req EXCEPT ![p] =
                  [ProfileDone("trim_history", TRUE, "") EXCEPT
                      !.response.deleted = to_delete]]
    /\ UNCHANGED openState
    /\ UNCHANGED <<profiles, nextProfile, groups, snapshots, settings, server,
                   nextId, faults, maxSeqEver>>

\* trim_history: store.trim_history(settings.preferences.max_history_entries);
\* the rows deleted are the first to_delete in ORDER BY timestamp ASC, in
\* whatever order the database puts equal timestamps.
trim_history(p) ==
    /\ Idle
    /\ LET max_entries == get_settings.max_history_entries
           count == Len(history)
           to_delete == IF count <= max_entries THEN 0 ELSE count - max_entries
       IN \E D \in SUBSET (1..count) :
            /\ Cardinality(D) = to_delete
            /\ \A i \in D, j \in (1..count) \ D :
                   history[i].timestamp <= history[j].timestamp
            /\ history' = WithoutPositions(history, D)
            /\ req' = [req EXCEPT ![p] =
                  [ProfileDone("trim_history", TRUE, "") EXCEPT
                      !.response.deleted = to_delete]]
    /\ UNCHANGED openState
    /\ UNCHANGED <<profiles, nextProfile, groups, snapshots, settings, server,
                   nextId, faults, maxSeqEver>>

MaxEntriesInputs == {1, 2}

NextHistory ==
    \/ \E g \in {"g1", "g2"} : create_snapshot_start(1, TRUE, g)
    \/ create_snapshot_db(1)
    \/ create_snapshot_save(1)
    \/ Connect(1)
    \/ clear_history(1)
    \/ trim_history(1)
    \/ Return(1)
    \/ \E n \in MaxEntriesInputs : update_settings(TRUE, n)
    \/ \E t \in 0..MaxClock : ClockChange(t)

SpecHistory == Init /\ [][NextHistory]_vars

\* ------------------------------------------ specification: group commands
\* An outside actor drops a snapshot object.
ExternalDrop(name) ==
    /\ Idle
    /\ \E o \in server : o.name = name
    /\ server' = Dropped(name)
    /\ UNCHANGED openState
    /\ UNCHANGED <<profiles, nextProfile, groups, snapshots, history, settings,
                   req, nextId, faults, maxSeqEver>>

DatabasesInputs == {<<DbA, DbB>>, <<DbA>>}

StepGroups(p) ==
    \/ \E has_profile \in BOOLEAN, g \in GroupIdInputs :
           create_snapshot_start(p, has_profile, g)
    \/ create_snapshot_db(p)
    \/ create_snapshot_save(p)
    \/ \E g \in GroupIdInputs, databases \in DatabasesInputs,
          profile_id \in {NoProfileId, 1} :
           update_group_start(p, g, StoredName(g), databases, profile_id)
    \/ update_group_drop_removed(p)
    \/ update_group_removed_done(p)
    \/ update_group_delete_row(p)
    \/ update_group_drop_all(p)
    \/ update_group_all_done(p)
    \/ update_group_save(p)
    \/ \E g \in GroupIdInputs : delete_group_start(p, g)
    \/ delete_group_drop(p)
    \/ delete_group_dropped(p)
    \/ delete_group_finish(p)
    \/ delete_profile(p, 1)
    \/ Connect(p)
    \/ Return(p)

NextGroups ==
    \/ StepGroups(1)
    \/ \E n \in ExtNames, d \in ServerDBs : ExternalCreate(n, d)

SpecGroups == Init /\ [][NextGroups]_vars

\* ----------------------------------- specification: the read-only commands
StepVerify(p) ==
    \/ \E has_profile \in BOOLEAN, g \in GroupIdInputs :
           create_snapshot_start(p, has_profile, g)
    \/ create_snapshot_db(p)
    \/ create_snapshot_save(p)
    \/ \E has_profile \in BOOLEAN, g \in GroupIdInputs :
           verify_snapshots_start(p, has_profile, g)
    \/ verify_snapshots_list(p)
    \/ \E has_profile \in BOOLEAN, id \in 1..MaxIds :
           check_external_snapshots_start(p, has_profile, id)
    \/ check_external_snapshots_list(p)
    \/ Connect(p)
    \/ Return(p)

\* Two outside names, so that a group can face more than one foreign object.
VerifyExtNames == ExtNames \cup {<<"y">>}

EnvironmentVerify ==
    \/ \E n \in VerifyExtNames, d \in ServerDBs : ExternalCreate(n, d)
    \/ \E n \in ServerNames : ExternalDrop(n)

NextVerify == StepVerify(1) \/ EnvironmentVerify

SpecVerify == Init /\ [][NextVerify]_vars

\* ============================================================== claims
RollbackDone(p) == req[p].op = "rollback_snapshot" /\ req[p].pc = "done"

\* The rollback went past the conflict check and returned its result.
PassedCheck(p) ==
    RollbackDone(p) /\ req[p].response.status \in {"success", "error_with_data"}

ListedOk(r) == \E i \in 1..Len(r.calls) : r.calls[i] = Call("list", <<>>, <<>>, TRUE)

TargetNames(r) == {ds.snapshot_name : ds \in Range(r.snapshot.database_snapshots)}

RestoredOk(r, ds) ==
    \E i \in 1..Len(r.calls) :
        r.calls[i] = Call("restore", ds.database, ds.snapshot_name, TRUE)

Issued(r, kinds, database) ==
    \E i \in 1..Len(r.calls) :
        r.calls[i].call \in kinds /\ r.calls[i].database = database

DropIssued(r, name) ==
    \E i \in 1..Len(r.calls) : r.calls[i].call = "drop" /\ r.calls[i].name = name

\* The objects that, when the rollback was invoked, the server held for a
\* member database of the checkpoint's group under a name that no tracked
\* checkpoint of the group references.
ExternalAtInvocation(r) ==
    LET target == CHOOSE s \in r.pre_snapshots : s.id = r.id
        g == CHOOSE x \in groups : x.id = target.group_id
    IN {o.name : o \in {x \in r.pre_server :
            /\ x.source \in Range(g.databases)
            /\ \A s \in r.pre_snapshots : s.group_id = g.id =>
                 \A i \in 1..Len(s.database_snapshots) :
                     s.database_snapshots[i].snapshot_name # x.name}}

\* C1: a rollback that obtained the server's snapshot list while the server
\* held external objects for the group's databases returns the conflict
\* error naming exactly those objects, has issued no drop, evict, restore or
\* create, and has left the checkpoint rows and the history as they were.
C1_ConflictAborts ==
    \A p \in Procs :
        LET r == req[p] IN
        (r.op = "rollback_snapshot" /\ ListedOk(r) /\ ExternalAtInvocation(r) # {})
        => /\ r.pc = "done"
           /\ r.response.status = "error"
           /\ r.response.message = "Cannot rollback: external snapshots exist"
           /\ r.response.external = ExternalAtInvocation(r)
           /\ \A i \in 1..Len(r.calls) : r.calls[i].call \in {"connect", "list"}
           /\ snapshots = r.pre_snapshots
           /\ history = r.pre_history

C1_Witness ==
    \E p \in Procs :
        /\ RollbackDone(p)
        /\ req[p].response.status = "error"
        /\ Cardinality(req[p].response.external) >= 2

\* C2: whenever the rollback is about to issue restore(D, S), the server
\* holds no snapshot object of D other than S.
C2_RestoreAlone ==
    \A p \in Procs :
        req[p].pc = "restore" =>
            LET ds == req[p].snapshot.database_snapshots[req[p].j]
            IN \A o \in server : o.source = ds.database => o.name = ds.snapshot_name

\* C3: when a rollback that passed the conflict check has returned: if the
\* target has at least one DatabaseSnapshot and each was restored, a drop was
\* issued for each of the target's objects and its row is gone; if any
\* database failed, the row is still there and none of the target's objects
\* was the subject of a drop.
C3_ConsumedOnlyWhenAllRestored ==
    \A p \in Procs :
        PassedCheck(p) =>
            LET r == req[p]
                dbs == Range(r.snapshot.database_snapshots)
            IN /\ (dbs # {} /\ \A ds \in dbs : RestoredOk(r, ds))
                  => /\ \A ds \in dbs : DropIssued(r, ds.snapshot_name)
                     /\ \A s \in snapshots : s.id # r.snapshot.id
               /\ (\E ds \in dbs : ~RestoredOk(r, ds))
                  => /\ r.snapshot \in snapshots
                     /\ \A n \in TargetNames(r) : ~DropIssued(r, n)

C3_Witness ==
    \E p \in Procs :
        /\ PassedCheck(p)
        /\ Len(req[p].snapshot.database_snapshots) = 2
        /\ \A ds \in Range(req[p].snapshot.database_snapshots) : RestoredOk(req[p], ds)

\* C4: a rollback to a partial checkpoint reports every failed entry as
\* "Original snapshot failed" without evicting or restoring its database,
\* evicts and restores every successful entry, reports success=false with
\* databases_restored the number of successful restores and databases_failed
\* the rest, and keeps the target's row.
C4_PartialCheckpoint ==
    \A p \in Procs :
        LET r == req[p]
            dbs == r.snapshot.database_snapshots
            res == r.response.result
            restored == {i \in 1..Len(dbs) : RestoredOk(r, dbs[i])}
        IN (PassedCheck(p) /\ \E i \in 1..Len(dbs) : ~dbs[i].success)
           => /\ Len(res.results) = Len(dbs)
              /\ \A i \in 1..Len(dbs) :
                    IF dbs[i].success
                    THEN /\ Issued(r, {"kill"}, dbs[i].database)
                         /\ \E c \in 1..Len(r.calls) :
                               /\ r.calls[c].call = "restore"
                               /\ r.calls[c].database = dbs[i].database
                               /\ r.calls[c].name = dbs[i].snapshot_name
                    ELSE /\ res.results[i] = OperationResult(dbs[i].database, FALSE,
                                                              "Original snapshot failed")
                         /\ ~Issued(r, {"kill", "restore"}, dbs[i].database)
              /\ res.success = FALSE
              /\ res.databases_restored = Cardinality(restored)
              /\ res.databases_failed = Len(dbs) - Cardinality(restored)
              /\ r.snapshot \in snapshots

C4_Witness ==
    \E p \in Procs :
        /\ PassedCheck(p)
        /\ \E ds \in Range(req[p].snapshot.database_snapshots) : ~ds.success
        /\ req[p].response.result.databases_restored = 1
        /\ req[p].response.result.databases_failed = 1

\* The rollback has left step 1 (the loop over the other checkpoints).
AfterOthers(r) ==
    /\ r.op = "rollback_snapshot"
    /\ \/ r.pc \in {"target", "restore", "consume", "history", "auto_db"}
       \/ r.pc = "done" /\ r.response.status \in {"success", "error_with_data"}

\* The position in the call log of the first evict or restore (past the end
\* of the log when there is none yet).
FirstTouch(r) ==
    LET touches == {i \in 1..Len(r.calls) : r.calls[i].call \in {"kill", "restore"}}
    IN IF touches = {} THEN Len(r.calls) + 1
       ELSE CHOOSE i \in touches : \A m \in touches : i <= m

\* The group's tracked checkpoints other than the target, at invocation.
Others(r) ==
    {s \in r.pre_snapshots : s.group_id = r.snapshot.group_id /\ s.id # r.snapshot.id}

\* C5: once a rollback is past step 1, every other tracked checkpoint of the
\* group has lost its row and had a drop issued for each of its successful
\* objects, all before the first evict or restore; and no drop issued before
\* the first evict or restore names an object of the target.
C5_OthersDroppedFirst ==
    \A p \in Procs :
        LET r == req[p] IN
        /\ AfterOthers(r) =>
             \A s \in Others(r) :
                /\ \A t \in snapshots : t.id # s.id
                /\ \A ds \in Range(s.database_snapshots) :
                      ds.success =>
                        \E i \in 1..(FirstTouch(r) - 1) :
                            /\ r.calls[i].call = "drop"
                            /\ r.calls[i].name = ds.snapshot_name
        /\ (r.op = "rollback_snapshot" /\ r.pc # "done") =>
             \A i \in 1..(FirstTouch(r) - 1) :
                r.calls[i].call = "drop" => r.calls[i].name \notin TargetNames(r)

C5_Witness ==
    \E p \in Procs :
        /\ req[p].pc = "restore"
        /\ \E s \in Others(req[p]) :
              \A ds \in Range(s.database_snapshots) : ds.success
        /\ \E s \in Others(req[p]) : s.database_snapshots # <<>>

\* C6: the result of a rollback that passed the conflict check has one entry
\* per DatabaseSnapshot of the target, in the target's order, successful
\* exactly where the restore succeeded; success is "all succeeded and the
\* list is not empty", and the two counts are those of the successful and of
\* the failed entries, whatever happened to the automatic checkpoint.
C6_RollbackResult ==
    \A p \in Procs :
        PassedCheck(p) =>
            LET r == req[p]
                dbs == r.snapshot.database_snapshots
                res == r.response.result
                restored == {i \in 1..Len(dbs) : RestoredOk(r, dbs[i])}
            IN /\ Len(res.results) = Len(dbs)
               /\ \A i \in 1..Len(dbs) :
                     /\ res.results[i].database = dbs[i].database
                     /\ res.results[i].success = (i \in restored)
               /\ res.success = (Len(dbs) > 0 /\ restored = 1..Len(dbs))
               /\ res.databases_restored = Cardinality(restored)
               /\ res.databases_failed = Len(dbs) - Cardinality(restored)
               /\ (r.response.status = "success") = res.success

C6_Witness ==
    \E p \in Procs :
        /\ PassedCheck(p)
        /\ req[p].response.result.success
        /\ req[p].auto
        /\ \E i \in 1..Len(req[p].calls) :
              req[p].calls[i].call = "create" /\ ~req[p].calls[i].ok

\* C7: a checkpoint added to the store gets a sequence number greater than
\* every sequence number ever given to a checkpoint of its group.
C7_SequenceNeverReused ==
    [][\A s \in snapshots' \ snapshots : s.sequence > maxSeqEver[s.group_id]]_vars

StoredSequences(group_id) ==
    {s.sequence : s \in {t \in snapshots : t.group_id = group_id}}

\* C8: get_next_sequence(group) is 1 for a group without checkpoints and
\* otherwise the successor of the largest sequence stored for that group:
\* above every stored sequence of the group, and its predecessor is stored.
C8_NextSequence ==
    \A g \in GroupIdInputs :
        LET n == get_next_sequence(g) IN
        /\ \A q \in StoredSequences(g) : q < n
        /\ n = 1 \/ (n - 1) \in StoredSequences(g)
        /\ StoredSequences(g) = {} => n = 1

C8_Witness ==
    \E g \in GroupIdInputs :
        /\ StoredSequences(g) = {2}
        /\ maxSeqEver[g] = 2
        /\ get_next_sequence(g) = 3
        /\ \E h \in GroupIdInputs : h # g /\ StoredSequences(h) # {}

\* The checkpoints the store holds now and did not hold at invocation.
NewSnapshots(r) ==
    {s \in snapshots : \A t \in r.pre_snapshots : t.id # s.id}

\* C9: after a fully successful rollback with auto_create_checkpoint on,
\* exactly one checkpoint is new; it is automatic, named "Automatic", has one
\* DatabaseSnapshot per member database and a sequence number greater than
\* that of every checkpoint the group had before the rollback.
C9_AutoCheckpoint ==
    \A p \in Procs :
        LET r == req[p] IN
        (PassedCheck(p) /\ r.response.result.success /\ get_settings.auto_create_checkpoint)
        => /\ Cardinality(NewSnapshots(r)) = 1
           /\ \A s \in NewSnapshots(r) :
                 /\ s.is_automatic
                 /\ s.display_name = "Automatic"
                 /\ s.group_id = r.group.id
                 /\ Len(s.database_snapshots) = Len(r.group.databases)
                 /\ \A t \in r.pre_snapshots :
                       t.group_id = s.group_id => t.sequence < s.sequence

\* C10: a rollback creates a checkpoint only if the setting is on and its
\* reported success is true; otherwise it adds no checkpoint, no second
\* history entry and issues no create_snapshot.
C10_AutoOnlyOnSuccess ==
    \A p \in Procs :
        LET r == req[p] IN
        (PassedCheck(p)
         /\ ~(get_settings.auto_create_checkpoint /\ r.response.result.success))
        => /\ NewSnapshots(r) = {}
           /\ Len(history) = Len(r.pre_history) + 1
           /\ \A i \in 1..Len(r.calls) : r.calls[i].call # "create"

\* The command of request r opened its remote session.
Connected(r) ==
    \E i \in 1..Len(r.calls) : r.calls[i] = Call("connect", <<>>, <<>>, TRUE)

\* The create_snapshot calls of request r, in the order issued.
CreateCalls(r) == SelectSeq(r.calls, LAMBDA c : c.call = "create")

\* C11: a create-checkpoint that reached the server issued create_snapshot
\* exactly once per member database, in group order, whatever the earlier
\* outcomes; it returns success and has persisted exactly one new checkpoint
\* with one DatabaseSnapshot per member database, successful exactly where
\* the create succeeded and with an error text elsewhere; one history entry
\* with the per-database results was appended.
C11_CreatePersistsAll ==
    \A p \in Procs :
        LET r == req[p]
            dbs == r.group.databases
            cc == CreateCalls(r)
            new == NewSnapshots(r)
        IN (r.op = "create_snapshot" /\ r.pc = "done" /\ Connected(r))
           => /\ r.response.status = "success"
              /\ Len(cc) = Len(dbs)
              /\ \A i \in 1..Len(dbs) : cc[i].database = dbs[i]
              /\ new = {r.response.snapshot}
              /\ \A s \in new :
                    /\ s.group_id = r.group.id
                    /\ Len(s.database_snapshots) = Len(dbs)
                    /\ \A i \in 1..Len(dbs) :
                          /\ s.database_snapshots[i].database = dbs[i]
                          /\ s.database_snapshots[i].snapshot_name = cc[i].name
                          /\ s.database_snapshots[i].success = cc[i].ok
                          /\ (s.database_snapshots[i].error = "") = cc[i].ok
              /\ \A s \in r.pre_snapshots : s \in snapshots
              /\ Len(history) = Len(r.pre_history) + 1
              /\ history[Len(history)].operation_type = "create_snapshot"
              /\ Len(history[Len(history)].results) = Len(dbs)
              /\ \A i \in 1..Len(dbs) :
                    /\ history[Len(history)].results[i].database = dbs[i]
                    /\ history[Len(history)].results[i].success = cc[i].ok

\* A create whose first database failed and whose second was still created.
C11_Witness ==
    \E p \in Procs :
        /\ req[p].op = "create_snapshot" /\ req[p].pc = "done"
        /\ Connected(req[p])
        /\ Len(CreateCalls(req[p])) = 2
        /\ ~CreateCalls(req[p])[1].ok
        /\ CreateCalls(req[p])[2].ok

\* The checkpoints the group of the request had when the command began.
PreCheckpoints(r, group_id) == {s \in r.pre_snapshots : s.group_id = group_id}

\* The successful entries of those checkpoints.
PreSuccessful(r, group_id) ==
    {ds \in UNION {Range(s.database_snapshots) : s \in PreCheckpoints(r, group_id)} :
        ds.success}

UpdateRemovedDone(p) ==
    /\ req[p].op = "update_group" /\ req[p].pc = "done"
    /\ req[p].response.status = "success"
    /\ removed_databases(req[p].group, req[p].input.databases) # {}

\* C12: when a group update that omits at least one stored database has
\* completed successfully, the group has no checkpoint left, and a drop was
\* requested for every successful entry of every checkpoint it had, for
\* removed and remaining databases alike.
C12_UpdateInvalidates ==
    \A p \in Procs :
        UpdateRemovedDone(p) =>
            /\ get_snapshots(req[p].group.id) = <<>>
            /\ \A ds \in PreSuccessful(req[p], req[p].group.id) :
                   DropIssued(req[p], ds.snapshot_name)

\* Database B was removed from a group that had a checkpoint with successful
\* entries for A and B.
C12_Witness ==
    \E p \in Procs :
        /\ UpdateRemovedDone(p)
        /\ req[p].input.databases = <<DbA>>
        /\ \E s \in PreCheckpoints(req[p], req[p].group.id) :
               /\ Len(s.database_snapshots) = 2
               /\ \A ds \in Range(s.database_snapshots) : ds.success

\* The profile of the group named by the request resolved when it began.
DeleteGroupResolved(r) ==
    \E g \in r.pre_groups :
        /\ g.id = r.input.id
        /\ g.profile_id # NoProfileId
        /\ \E pr \in r.pre_profiles : pr.id = g.profile_id

\* C13: a delete of an existing group whose profile resolves returns success
\* and leaves neither the group row nor any checkpoint row of the group,
\* whether or not the connection opened and whichever drops failed; when the
\* connection opened, a drop was requested for every successful entry of
\* every checkpoint of the group.
C13_DeleteGroup ==
    \A p \in Procs :
        (/\ req[p].op = "delete_group" /\ req[p].pc = "done"
         /\ DeleteGroupResolved(req[p])) =>
            /\ req[p].response.status = "success"
            /\ \A s \in snapshots : s.group_id # req[p].input.id
            /\ \A g \in groups : g.id # req[p].input.id
            /\ Connected(req[p]) =>
                 \A ds \in PreSuccessful(req[p], req[p].input.id) :
                     DropIssued(req[p], ds.snapshot_name)

\* A group with a checkpoint was deleted although the connection failed.
C13_Witness ==
    \E p \in Procs :
        /\ req[p].op = "delete_group" /\ req[p].pc = "done"
        /\ DeleteGroupResolved(req[p])
        /\ PreSuccessful(req[p], req[p].input.id) # {}
        /\ ~Connected(req[p])
        /\ req[p].response.status = "success"

\* The stored group a command in progress is about.
ConcernedGroup(r) ==
    {g \in r.pre_groups : g.id = r.input.id \/ g.id = r.group.id}

\* The group's profile reference is absent or names no stored profile.
ProfileMissing(r, g) ==
    \/ g.profile_id = NoProfileId
    \/ \A pr \in r.pre_profiles : pr.id # g.profile_id

\* The command needs a remote session for group g.
NeedsSession(r, g) ==
    \/ r.op = "create_snapshot"
    \/ r.op = "update_group" /\ removed_databases(g, r.input.databases) # {}
    \/ r.op = "delete_group" /\ PreCheckpoints(r, g.id) # {}

\* C14: a command that needs a remote session for a group whose profile
\* reference is absent or names a deleted profile makes no remote call, not
\* even a connection, changes no group or checkpoint row, and returns an
\* error.
C14_MissingProfileRefused ==
    \A p \in Procs : \A g \in ConcernedGroup(req[p]) :
        (NeedsSession(req[p], g) /\ ProfileMissing(req[p], g)) =>
            /\ req[p].calls = <<>>
            /\ snapshots = req[p].pre_snapshots
            /\ groups = req[p].pre_groups
            /\ req[p].pc = "done" => req[p].response.status = "error"

\* The entries of the checkpoints the store holds for a group.
Tracked(group_id) ==
    UNION {Range(s.database_snapshots) : s \in {x \in snapshots : x.group_id = group_id}}

VerifyDone(p) ==
    /\ req[p].op = "verify_snapshots" /\ req[p].pc = "done"
    /\ req[p].response.status = "success"

\* C15: Verify reports as stale exactly the tracked names marked successful
\* for which the server has no object, as orphaned exactly the server's
\* objects whose source database is a member of the group and whose name no
\* tracked entry of the group carries, and verified exactly when both are
\* empty.
C15_Verify ==
    \A p \in Procs :
        VerifyDone(p) =>
            LET id == req[p].input.id
                stale == {ds.snapshot_name :
                            ds \in {d \in Tracked(id) :
                                      d.success /\ d.snapshot_name \notin ServerNames}}
                orphaned == {o.name :
                    o \in {x \in server :
                        /\ \E g \in groups : g.id = id /\ x.source \in Range(g.databases)
                        /\ \A d \in Tracked(id) : d.snapshot_name # x.name}}
            IN /\ req[p].response.stale_metadata = stale
               /\ req[p].response.orphaned_snapshots = orphaned
               /\ req[p].response.verified <=> (stale = {} /\ orphaned = {})

\* A verification that found a stale entry and an orphaned object while the
\* group also had an entry that was never created.
C15_Witness ==
    \E p \in Procs :
        /\ VerifyDone(p)
        /\ req[p].response.stale_metadata # {}
        /\ req[p].response.orphaned_snapshots # {}
        /\ \E d \in Tracked(req[p].input.id) : ~d.success
        /\ ~req[p].response.verified

ReadOnlyOps == {"verify_snapshots", "check_external_snapshots"}

\* A step of a Verify or Check-external command, from its invocation to its
\* return.
ReadOnlyStep ==
    \E p \in Procs : req[p].op \in ReadOnlyOps \/ req'[p].op \in ReadOnlyOps

CheckDone(p) ==
    /\ req[p].op = "check_external_snapshots" /\ req[p].pc = "done"
    /\ req[p].response.status = "success"

\* C18: Check-external reports external snapshots exactly when the conflict
\* check of a Rollback on the same checkpoint in the same state finds some,
\* with the same set of names, and gives one drop command per reported name.
C18_CheckMatchesRollback ==
    \A p \in Procs :
        CheckDone(p) =>
            LET blocking == external_snapshots(get_snapshots_with_source,
                                get_snapshots(req[p].group.id), req[p].group)
            IN /\ req[p].response.has_external_snapshots <=> (blocking # {})
               /\ req[p].response.external = blocking
               /\ req[p].response.drop_commands =
                      {drop_command(n) : n \in blocking}
               /\ Cardinality(req[p].response.drop_commands)
                      = Cardinality(blocking)

\* Two foreign objects on the group's databases next to a tracked one.
C18_Witness ==
    \E p \in Procs :
        /\ CheckDone(p)
        /\ Cardinality(req[p].response.external) = 2
        /\ Cardinality(req[p].response.drop_commands) = 2
        /\ \E d \in Tracked(req[p].group.id) : d.snapshot_name \in ServerNames

\* The drop calls of request r that the server carried out.
DropsSucceeded(r) ==
    Len(SelectSeq(r.calls, LAMBDA c : c.call = "drop" /\ c.ok))

CleanupDone(p) ==
    /\ req[p].op = "cleanup_snapshot" /\ req[p].pc = "done"
    /\ Connected(req[p])

\* C16: a cleanup of an existing checkpoint whose connection opened returns
\* success having requested a drop for the object of every entry of the
\* checkpoint, failed entries included; the checkpoint's row is gone and every
\* other row is as it was, whatever the drops' outcomes; the count it returns
\* and the count in its history entry are the number of drops that succeeded.
C16_Cleanup ==
    \A p \in Procs :
        CleanupDone(p) =>
            /\ req[p].response.status = "success"
            /\ \A ds \in Range(req[p].snapshot.database_snapshots) :
                   DropIssued(req[p], ds.snapshot_name)
            /\ req[p].snapshot \in req[p].pre_snapshots
            /\ snapshots = req[p].pre_snapshots \ {req[p].snapshot}
            /\ req[p].response.dropped_databases = DropsSucceeded(req[p])
            /\ history[Len(history)].operation_type = "cleanup_snapshot"
            /\ history[Len(history)].dropped = DropsSucceeded(req[p])
            /\ Len(history) = Len(req[p].pre_history) + 1

\* A cleanup of a checkpoint with a failed entry, whose object was requested
\* to be dropped like the other's, next to another checkpoint that stayed.
C16_Witness ==
    \E p \in Procs :
        /\ CleanupDone(p)
        /\ \E ds \in Range(req[p].snapshot.database_snapshots) : ~ds.success
        /\ Len(SelectSeq(req[p].calls, LAMBDA c : c.call = "drop")) = 2
        /\ snapshots # {}

ProfileOps == {"create_profile", "update_profile", "delete_profile",
               "set_active_profile", "save_connection", "get_profiles"}

\* C19: no state has two profiles flagged active, and when a profile command
\* has completed, with success or with an error, exactly one profile is
\* flagged active if there is any profile and none if there is none.
C19_ExactlyOneActive ==
    /\ Cardinality(ActiveProfiles(profiles)) <= 1
    /\ \A p \in Procs :
         (req[p].op \in ProfileOps /\ req[p].pc = "done") =>
             Cardinality(ActiveProfiles(profiles))
                 = IF profiles = {} THEN 0 ELSE 1

\* The rows of ps with the active flag left out.
Unflagged(ps) == {[id |-> pr.id, name |-> pr.name, host |-> pr.host] : pr \in ps}

GetProfilesDone(p) == req[p].op = "get_profiles" /\ req[p].pc = "done"

\* C20: the repair that get_profiles runs flags exactly one profile, and
\* touches nothing else, when there were profiles and none was active; it
\* changes nothing when one was active or there was no profile; and running
\* it again on its result changes nothing.
C20_EnsureIdempotent ==
    \A p \in Procs :
        GetProfilesDone(p) =>
            LET before == req[p].pre_profiles
            IN /\ (before # {} /\ ActiveProfiles(before) = {}) =>
                     /\ Cardinality(ActiveProfiles(profiles)) = 1
                     /\ Unflagged(profiles) = Unflagged(before)
                     /\ Cardinality(profiles) = Cardinality(before)
               /\ (before = {} \/ ActiveProfiles(before) # {}) =>
                     profiles = before
               /\ ensure_active_profile(profiles) = profiles
               /\ ensure_active_profile(ensure_active_profile(before))
                     = ensure_active_profile(before)

\* get_profiles found two profiles, neither active, and left one flagged.
C20_Witness ==
    \E p \in Procs :
        /\ GetProfilesDone(p)
        /\ Cardinality(req[p].pre_profiles) = 2
        /\ ActiveProfiles(req[p].pre_profiles) = {}
        /\ Cardinality(ActiveProfiles(profiles)) = 1

\* C21: while a request is between the statements of a store call, no other
\* request executes a store call: it neither reads the store nor starts or
\* continues a call of its own.
C21_StoreCallsAtomic ==
    [][\A p, q \in Procs :
         (p # q /\ req[q].pc = "sap_activate") =>
             (req'[p] = req[p] \/ req[p].pc = "done")]_vars

\* C22: a step that is not a clear_history or trim_history leaves every
\* history entry as it is and at most appends; a trim_history with count
\* entries and maximum max removes exactly max(0, count - max) entries, none
\* of them newer than an entry that stays, leaves the others unchanged, and
\* returns the number removed.
C22_AppendOnly ==
    [][/\ (\A p \in Procs : req'[p].op \notin {"clear_history", "trim_history"}
                              \/ req[p].op = req'[p].op) =>
              /\ Len(history') >= Len(history)
              /\ SubSeq(history', 1, Len(history)) = history
       /\ \A p \in Procs :
            (req[p].op = "idle" /\ req'[p].op = "trim_history") =>
                LET count == Len(history)
                    max == get_settings.max_history_entries
                    removed == IF count > max THEN count - max ELSE 0
                IN /\ Len(history') = count - removed
                   /\ req'[p].response.deleted = removed
                   /\ removed = 0 => history' = history
                   /\ \E D \in SUBSET (1..count) :
                        /\ history' = WithoutPositions(history, D)
                        /\ \A i \in D, j \in (1..count) \ D :
                               history[i].timestamp <= history[j].timestamp
      ]_vars

\* A trim that removed two of three entries written at different times, the
\* newest of which was not the last one written.
C22_Witness ==
    \E p \in Procs :
        /\ req[p].op = "trim_history" /\ req[p].pc = "done"
        /\ req[p].response.deleted = 2
        /\ Len(req[p].pre_history) = 3
        /\ Len(history) = 1
        /\ history[1] = req[p].pre_history[1]
        /\ \A i \in 2..3 :
               req[p].pre_history[i].timestamp < history[1].timestamp

C24_SingleSettingsRow ==
    [][ /\ settings' # {}
           => Cardinality(settings') = 1 /\ \A row \in settings' : row.id = 1
        /\ settings # {} => settings' # {}
        /\ (req[1].op = "idle" /\ req'[1].op = "open")
           => LET old == IF settings = {}
                         THEN {DefaultSettings, BundledSettings}
                         ELSE {row.data : row \in settings}
              IN \A row \in settings' :
                    \E d \in old :
                       \/ row.data = d
                       \/ /\ d.max_history_entries = 100
                          /\ row.data = [d EXCEPT !.max_history_entries =
                                                     config.max_history_entries]
      ]_vars

\* The store was opened again after the user changed the settings, and the
\* row is the one the user left.
C24_Witness ==
    /\ req[1].op = "open"
    /\ req[1].pc = "done"
    /\ req[1].pre_settings # {}
    /\ settings = req[1].pre_settings
    /\ \A row \in settings : row.data \notin {DefaultSettings, BundledSettings}

\* C25: an open that found a marker other than the running version wrote the
\* running version as the marker, exactly once, after at most one import
\* attempt and whatever that attempt's outcome; an open that found the marker
\* equal to the running version attempted no import and wrote no marker.
C25_MarkerAlwaysAdvances ==
    \A p \in Procs :
        LET r == req[p]
            last_version == get_last_version_seen(r.pre_metadata)
            imports == SelectSeq(r.calls, LAMBDA c : c.call = "import")
            markers == SelectSeq(r.calls, LAMBDA c : c.call = "marker")
        IN (r.op = "open" /\ r.pc = "done")
           => /\ get_last_version_seen(metadata) = running
              /\ last_version # running
                 => /\ Len(markers) = 1
                    /\ Len(imports) <= 1
                    /\ r.calls[Len(r.calls)].call = "marker"
                    /\ Len(imports) = 1
                       <=> compare_versions(last_version, ProfilesVersion) < 0
              /\ last_version = running
                 => /\ r.calls = <<>>
                    /\ metadata = r.pre_metadata
                    /\ profiles = r.pre_profiles
                    /\ config = r.pre_config

\* An open whose import failed on a rejected INSERT still recorded the
\* running version.
C25_Witness ==
    \E p \in Procs :
        /\ req[p].op = "open"
        /\ req[p].pc = "done"
        /\ get_last_version_seen(req[p].pre_metadata) # running
        /\ \E i \in 1..Len(req[p].calls) :
              req[p].calls[i].call = "import" /\ ~req[p].calls[i].ok
        /\ get_last_version_seen(metadata) = running

\* C26: an open whose import found a Profile row left the Profile rows, the
\* Settings values, the history and config.json as they were.
C26_ImportSkippedEntirely ==
    \A p \in Procs :
        LET r == req[p]
        IN (/\ r.op = "open"
            /\ r.pc = "done"
            /\ \E i \in 1..Len(r.calls) : r.calls[i].call = "import"
            /\ r.pre_config.exists
            /\ r.pre_profiles # {})
           => /\ profiles = r.pre_profiles
              /\ settings = r.pre_settings
              /\ history = r.pre_history
              /\ config = r.pre_config

\* C26 (amended): an open whose import found a Profile row left the Profile
\* rows, the history and config.json as they were, and changed no Settings
\* value other than max_history_entries, which it set to config.json's value
\* when the stored value was 100 and config.json's was not.
C26_SkippedExceptPreferences ==
    \A p \in Procs :
        LET r == req[p]
        IN (/\ r.op = "open"
            /\ r.pc = "done"
            /\ \E i \in 1..Len(r.calls) : r.calls[i].call = "import"
            /\ r.pre_config.exists
            /\ r.pre_profiles # {})
           => /\ profiles = r.pre_profiles
              /\ history = r.pre_history
              /\ config = r.pre_config
              /\ \A row \in settings : \E old \in r.pre_settings :
                    /\ row.id = old.id
                    /\ row.data =
                         IF old.data.max_history_entries = 100
                         THEN [old.data EXCEPT !.max_history_entries =
                                   r.pre_config.max_history_entries]
                         ELSE old.data

\* An import that found a Profile row returned, having replaced the stored
\* max_history_entries by config.json's.
C26_Witness ==
    \E p \in Procs :
        /\ req[p].op = "open"
        /\ req[p].pc = "done"
        /\ \E i \in 1..Len(req[p].calls) : req[p].calls[i].call = "import"
        /\ req[p].pre_config.exists
        /\ req[p].pre_profiles # {}
        /\ profiles = req[p].pre_profiles
        /\ settings # req[p].pre_settings

\* C27: an open whose import found config.json and no Profile row created one
\* Profile row for every entry of config.json with a non-empty password and
\* none for the others, flagged active exactly the row of the active entry,
\* and changed the stored max_history_entries only from its default of 100.
C27_OneRowPerEntry ==
    \A p \in Procs :
        LET r == req[p]
            valid == {e \in r.pre_config.profiles : e.password # ""}
            RowOf(e) == {pr \in profiles :
                            /\ pr.host = e.host
                            /\ pr.name = (IF e.key = "default" THEN "Migrated"
                                          ELSE e.name)}
            old == IF r.pre_settings = {} THEN {DefaultSettings, BundledSettings}
                   ELSE {row.data : row \in r.pre_settings}
        IN (/\ r.op = "open"
            /\ r.pc = "done"
            /\ \E i \in 1..Len(r.calls) : r.calls[i].call = "import"
            /\ r.pre_config.exists
            /\ r.pre_profiles = {})
           => /\ Cardinality(profiles) = Cardinality(valid)
              /\ \A e \in valid :
                    /\ Cardinality(RowOf(e)) = 1
                    /\ \A pr \in RowOf(e) :
                          pr.is_active <=> e.key = r.pre_config.active_profile
              /\ \A row \in settings :
                    \/ row.data \in old
                    \/ \E d \in old : d.max_history_entries = 100

\* C28: two DatabaseSnapshot entries of tracked checkpoints that differ in
\* group, database or sequence number carry different remote names.
C28_NamesUnique ==
    \A s, t \in snapshots :
        \A i \in 1..Len(s.database_snapshots), j \in 1..Len(t.database_snapshots) :
            LET ds == s.database_snapshots[i]
                dt == t.database_snapshots[j]
            IN (\/ s.group_id # t.group_id
                \/ ds.database # dt.database
                \/ s.sequence # t.sequence)
               => ds.snapshot_name # dt.snapshot_name

\* C29: when a rollback that passed the conflict check has returned, the only
\* checkpoints the store holds for the group are the target, if it was not
\* consumed, and the automatic checkpoint this rollback created, if any; every
\* other checkpoint the group had is gone, also one whose remote object
\* failed to drop.
C29_OnlyTargetAndSuccessor ==
    \A p \in Procs :
        LET r == req[p]
        IN PassedCheck(p)
           => /\ \A s \in snapshots :
                    s.group_id = r.group.id
                    => \/ s.id = r.snapshot.id
                       \/ /\ s.is_automatic
                          /\ \A t \in r.pre_snapshots : t.id # s.id
              /\ Cardinality({s \in snapshots :
                     s.group_id = r.group.id /\ s.id # r.snapshot.id}) <= 1
              /\ \A t \in r.pre_snapshots :
                    (t.group_id = r.group.id /\ t.id # r.snapshot.id)
                    => \A s \in snapshots : s.id # t.id

\* A rollback returned after the drop of another checkpoint's object had
\* failed: the object is still on the server and the checkpoint's row is gone.
C29_Witness ==
    \E p \in Procs :
        /\ PassedCheck(p)
        /\ \E t \in req[p].pre_snapshots :
              /\ t.group_id = req[p].group.id
              /\ t.id # req[p].snapshot.id
              /\ \A s \in snapshots : s.id # t.id
              /\ \E i \in 1..Len(req[p].calls), j \in 1..Len(t.database_snapshots) :
                    /\ req[p].calls[i].call = "drop"
                    /\ ~req[p].calls[i].ok
                    /\ req[p].calls[i].name = t.database_snapshots[j].snapshot_name

\* C30: the evict and restore calls of a rollback that passed the conflict
\* check are, in order, one evict and then one restore for each successful
\* DatabaseSnapshot of the target, in the target's order, whatever the outcome
\* of each call: a failed evict is followed by its restore, a failed restore by
\* the next database's evict, and no call is issued a second time.
C30_EvictThenRestoreOnce ==
    \A p \in Procs :
        LET r == req[p]
            touches == SelectSeq(r.calls, LAMBDA c : c.call \in {"kill", "restore"})
            good == SelectSeq(r.snapshot.database_snapshots, LAMBDA ds : ds.success)
        IN PassedCheck(p)
           => /\ Len(touches) = 2 * Len(good)
              /\ \A i \in 1..Len(good) :
                    /\ touches[2 * i - 1].call = "kill"
                    /\ touches[2 * i - 1].database = good[i].database
                    /\ touches[2 * i].call = "restore"
                    /\ touches[2 * i].database = good[i].database
                    /\ touches[2 * i].name = good[i].snapshot_name

\* A rollback of two databases returned after the first restore had failed
\* and the second database had been evicted and restored.
C30_Witness ==
    \E p \in Procs :
        LET touches == SelectSeq(req[p].calls,
                                 LAMBDA c : c.call \in {"kill", "restore"})
        IN /\ PassedCheck(p)
           /\ Len(touches) = 4
           /\ ~touches[2].ok
           /\ touches[4].call = "restore"
           /\ touches[4].ok

\* C31: no two checkpoints of one group hold the same sequence number.
C31_SequencesDistinct ==
    \A s, t \in snapshots :
        (s.id # t.id /\ s.group_id = t.group_id) => s.sequence # t.sequence

\* C32: a rollback about to issue its restore finds the snapshot object it
\* restores from on the server, and a rollback that returned without having
\* restored every database still has its target's row.
C32_RollbacksDoNotCollide ==
    \A p \in Procs :
        LET r == req[p]
        IN /\ (r.op = "rollback_snapshot" /\ r.pc = "restore")
              => \E o \in server :
                    o.name = r.snapshot.database_snapshots[r.j].snapshot_name
           /\ (PassedCheck(p) /\ ~AllRestored(r.response.result.results))
              => \E s \in snapshots : s.id = r.snapshot.id

\* C33: the name of a successful DatabaseSnapshot of a tracked checkpoint is
\* the name of no DatabaseSnapshot, successful or failed, of another tracked
\* checkpoint.
C33_NoSharedObject ==
    \A s, t \in snapshots :
        s.id # t.id
        => \A i \in 1..Len(s.database_snapshots), j \in 1..Len(t.database_snapshots) :
              s.database_snapshots[i].success
              => s.database_snapshots[i].snapshot_name
                    # t.database_snapshots[j].snapshot_name

\* C34: with groups over pairwise disjoint database sets, no remote call
\* failed and nothing created or dropped outside the tool, whenever no
\* command is in progress Verify of every group finds no stale entry and no
\* orphaned object: every tracked success=true name is live and every live
\* object of a member database is tracked.
C34_BookkeepingTruthful ==
    (Idle /\ faults = 0 /\ PairwiseDisjoint(groups)) =>
        \A g \in groups :
            /\ stale_metadata(server, get_snapshots(g.id)) = {}
            /\ orphaned_snapshots(server, get_snapshots(g.id), g.id) = {}

\* C34 witness: a rollback with its automatic checkpoint has completed,
\* nothing failed, and the group's new checkpoint is tracked and live.
C34_Witness ==
    /\ Idle /\ faults = 0 /\ PairwiseDisjoint(groups)
    /\ \E i \in 1..Len(history) : history[i].operation_type = "rollback"
    /\ \E s \in snapshots : s.is_automatic /\
           \E ds \in Range(s.database_snapshots) :
               ds.success /\ ds.snapshot_name \in ServerNames

\* C35: a create, delete, cleanup or rollback command that returns one of
\* the errors raised before its first remote command (no usable profile,
\* unknown group or checkpoint, connection failure, failed listing query)
\* has left the store and the server as they were when it was called: no
\* checkpoint row added or removed, no history entry, no object touched.
EarlyErrors ==
    {"No active connection profile", "Group not found", "Snapshot not found",
     "Failed to connect", "Failed to check snapshots"}

C36_FailedUpdateChangesNothing ==
    \A p \in Procs :
        (/\ req[p].pc = "done"
         /\ req[p].op = "update_group"
         /\ req[p].response.status = "error")
        => /\ groups = req[p].pre_groups
           /\ snapshots = req[p].pre_snapshots
           /\ server = req[p].pre_server

\* C37 (as stated): every checkpoint row refers to a group row that exists,
\* whatever the interleaving of checkpoint creation with the deletion of
\* the group.
C37_CheckpointHasGroup ==
    \A s \in snapshots : \E g \in groups : g.id = s.group_id

\* C38 (as stated): when a rollback of a checkpoint of group A has listed
\* the server's objects and another group holds a tracked, live snapshot
\* object of a database of A, the rollback ends with the conflict error and
\* the other groups' checkpoint rows and every object are as they were.
OthersLive(r) ==
    {ds.snapshot_name :
        ds \in {d \in UNION {Range(s.database_snapshots) :
                       s \in {t \in r.pre_snapshots : t.group_id # r.group.id}} :
                  /\ d.success
                  /\ d.database \in Range(r.group.databases)
                  /\ d.snapshot_name \in {o.name : o \in r.pre_server}}}

C38_SharedDatabaseConflict ==
    \A p \in Procs :
        (/\ req[p].pc = "done"
         /\ req[p].op = "rollback_snapshot"
         /\ req[p].group # NoGroup
         /\ OthersLive(req[p]) # {})
        => /\ req[p].response.message = "Cannot rollback: external snapshots exist"
           /\ server = req[p].pre_server
           /\ {s \in snapshots : s.group_id # req[p].group.id}
                = {s \in req[p].pre_snapshots : s.group_id # req[p].group.id}

\* C39: a delete of an existing checkpoint that reached the server has
\* issued a drop for exactly the success=true entries of the checkpoint, in
\* order, has removed the checkpoint's row and no other, and has returned
\* success, whether or not the drops succeeded.
DropCalls(calls) ==
    SelectSeq(calls, LAMBDA c : c.call = "drop")

SuccessfulEntries(snapshot) ==
    SelectSeq(snapshot.database_snapshots, LAMBDA ds : ds.success)

C39_DeleteAlwaysRemovesRow ==
    \A p \in Procs :
        (/\ req[p].pc = "done"
         /\ req[p].op = "delete_snapshot"
         /\ \E i \in 1..Len(req[p].calls) :
                req[p].calls[i].call = "connect" /\ req[p].calls[i].ok)
        => /\ req[p].response.status = "success"
           /\ Len(DropCalls(req[p].calls)) = Len(SuccessfulEntries(req[p].snapshot))
           /\ \A i \in 1..Len(DropCalls(req[p].calls)) :
                  DropCalls(req[p].calls)[i].name
                      = SuccessfulEntries(req[p].snapshot)[i].snapshot_name
           /\ req[p].snapshot \in req[p].pre_snapshots
           /\ snapshots = req[p].pre_snapshots \ {req[p].snapshot}

\* C39 witness: a delete has finished after one of its drops failed.
C39_Witness ==
    \E p \in Procs :
        /\ req[p].pc = "done"
        /\ req[p].op = "delete_snapshot"
        /\ req[p].response.status = "success"
        /\ Cardinality(req[p].pre_snapshots) >= 2
        /\ \E i \in 1..Len(req[p].calls) :
               req[p].calls[i].call = "drop" /\ ~req[p].calls[i].ok

\* C40: a finished update of an existing group whose new database list
\* contains every stored database (a rename, or databases added) has made
\* no remote call at all, and the checkpoint rows and the server's objects
\* are as they were when it was called.
C40_UpdateWithoutRemovalIsLocal ==
    \A p \in Procs :
        (/\ req[p].pc = "done"
         /\ req[p].op = "update_group"
         /\ \E g \in req[p].pre_groups :
                /\ g.id = req[p].input.id
                /\ Range(g.databases) \subseteq Range(req[p].input.databases))
        => /\ req[p].calls = <<>>
           /\ snapshots = req[p].pre_snapshots
           /\ server = req[p].pre_server

\* C40 witness: a group with a live tracked checkpoint has been renamed with
\* its database list kept.
C40_Witness ==
    \E p \in Procs :
        /\ req[p].pc = "done"
        /\ req[p].op = "update_group"
        /\ req[p].response.status = "success"
        /\ \E g \in req[p].pre_groups :
               /\ g.id = req[p].input.id
               /\ g.name # req[p].input.name
               /\ Range(g.databases) \subseteq Range(req[p].input.databases)
               /\ \E s \in snapshots : s.group_id = g.id /\
                      \E ds \in Range(s.database_snapshots) :
                          ds.success /\ ds.snapshot_name \in ServerNames

====
